---------------------------- MODULE Spec2Model ----------------------------
(***************************************************************************)
(* A model of the Tonhub connector of ton-x (src/connector/               *)
(* TonhubConnector.ts, src/connector/crypto.ts and the HTTP transport):   *)
(* wallet-config verification, session normalisation, the session polling *)
(* loop, session creation and the transaction / sign job requests.       *)
(*                                                                         *)
(* Data is abstract but conversions are not the identity:                  *)
(*   - a base64 string is [bytes, form]: Node's Buffer.from(s, 'base64')   *)
(*     accepts the standard and the url-safe alphabet, with or without     *)
(*     padding, so two different strings decode to the same bytes;         *)
(*   - a friendly address string is [addr, bounceable, valid]:             *)
(*     Address.parseFriendly drops the flag byte and throws on a string    *)
(*     that is no address;                                                 *)
(*   - a signature is the pair (public key of the signer, signed cell),    *)
(*     which is what ed25519 verification decides.                         *)
(***************************************************************************)
EXTENDS Integers, Sequences, FiniteSets, TLC

VARIABLES
    vin,      \* a function taken alone: its arguments (SpecVerify: the
              \* arguments of verifyWalletConfig [session, config])
    vout,     \* a function taken alone: the outcome of the last call
              \* (SpecVerify: "none", "true", "false", "throw")
    vbase,    \* SpecVerify: the accepted arguments a changed call was derived from
    args,     \* the argument the connector was constructed with
    network,  \* the connector's network: "mainnet" or "testnet"
    op,       \* the public operation in flight, "none" before the call
    pc,       \* where the call is: "idle", "session_new", "session", "loop",
              \* "command_new", "command_get", "job_delay", "done"
    req,      \* the arguments of the call
    fails,    \* failure count of the backoff around the relay call in progress
    ofails,   \* failure count of the enclosing backoff of the operation
    rec,      \* the last session record the relay answered
    session,  \* requestTransaction/requestSign: the session they checked
    boc,      \* requestTransaction/requestSign: the blob they submitted
    jrec,     \* the last job record the relay answered
    result,   \* the outcome of the call: [kind, value, error]
    sent,     \* the arguments of the last relay call made
    relay,    \* the job record the relay answers from now on, once it has
              \* settled on one; NoJob while it may still answer anything
    calls,    \* number of relay calls made, per method
    hist,     \* history of the call: [integrity] a wallet config failed its
              \* check, [later] a relay call was made after that, [failed]
              \* a relay call or the handling of its answer threw
    now,      \* Date.now(), in ticks
    expires   \* awaitSessionReady: its deadline

verifyVars == <<vin, vout, vbase>>
callVars == <<args, network, op, pc, req, fails, ofails, rec, session, boc,
              jrec, result, sent, relay, calls, hist, now, expires>>
vars == <<vin, vout, vbase, args, network, op, pc, req, fails, ofails, rec,
          session, boc, jrec, result, sent, relay, calls, hist, now, expires>>

\* Number of distinct key pairs (seeds, wallet keys, app keys) of the model.
NumKeys == 2

---------------------------------------------------------------------------
(* Values *)

Keys == 1..NumKeys

\* keyPairFromSeed: the public key of the key pair derived from a seed.
\* Seeds are 1..NumKeys, their public keys NumKeys+1..2*NumKeys.
keyPairFromSeed(seed) == [secretKey |-> seed, publicKey |-> NumKeys + seed]

\* A string that holds no base64 at all decodes to no bytes: bytes 0.
NoBase64 == [bytes |-> 0, form |-> "std"]

Forms == {"std", "url"}

\* Buffer.from(s, 'base64'): both alphabets decode, padding is optional.
Base64Decode(s) == s.bytes

\* buffer.toString('base64'): standard alphabet, padded.
Base64Encode(b) == [bytes |-> b, form |-> "std"]

\* Address.parseFriendly(s): the address without its flags, or an exception.
ParseFriendly(s) ==
    IF s.valid THEN [ok |-> TRUE, address |-> s.addr]
    ELSE [ok |-> FALSE, address |-> 0]

\* contractAddress: the address of the v4 wallet contract of a public key.
\* Address a names the wallet of key a.
contractAddress(publicKey) == publicKey

\* walletV4FromConfig: decodes the wallet's config blob, or throws.
walletV4FromConfig(walletConfig) ==
    IF walletConfig.valid
    THEN [kind |-> "value", publicKey |-> walletConfig.key,
          address |-> contractAddress(walletConfig.key)]
    ELSE [kind |-> "throw", publicKey |-> 0, address |-> 0]

WalletV4 == "org.ton.wallets.v4"

\* extractPublicKeyAndAddress: null for an unknown wallet type.
extractPublicKeyAndAddress(config) ==
    IF config.walletType = WalletV4
    THEN walletV4FromConfig(config.walletConfig)
    ELSE [kind |-> "null", publicKey |-> 0, address |-> 0]

\* safeSignVerify(cell, signature, publicKey)
safeSignVerify(cell, signature, publicKey) ==
    /\ signature.key = publicKey
    /\ signature.msg = cell

\* safeSign(cell, secretKey) of the wallet whose public key is publicKey.
SignatureBy(publicKey, cell) == [key |-> publicKey, msg |-> cell]

\* Bytes that are no signature of anything.
JunkSignature == [key |-> 0, msg |-> <<>>]

\* The wallet-binding proof cell of verifyWalletConfig.
WalletBindingProof(sessionBytes, address, endpoint, appKeyBytes) ==
    <<"coins0", sessionBytes, address, "bit1", <<endpoint>>, <<appKeyBytes>> >>

\* verifyWalletConfig(session, config), session named sid here: "true", "false", or "throw" when an
\* exception leaves the function.
verifyWalletConfigSkipAddress(sid, config) ==
    LET parsed == ParseFriendly(config.address)
        extracted == extractPublicKeyAndAddress(config)
    IN  IF ~parsed.ok THEN "throw"
        ELSE IF extracted.kind = "throw" THEN "throw"
        ELSE IF extracted.kind = "null" THEN "false"
        ELSE IF safeSignVerify(
                    WalletBindingProof(Base64Decode(sid), parsed.address,
                                       config.endpoint,
                                       Base64Decode(config.appPublicKey)),
                    Base64Decode(config.walletSig), extracted.publicKey)
             THEN "true" ELSE "false"

verifyWalletConfig(sid, config) ==
    LET parsed == ParseFriendly(config.address)
        extracted == extractPublicKeyAndAddress(config)
    IN  IF ~parsed.ok THEN "throw"
        ELSE IF extracted.kind = "throw" THEN "throw"
        ELSE IF extracted.kind = "null" THEN "false"
        ELSE IF extracted.address # parsed.address THEN "false"
        ELSE IF safeSignVerify(
                    WalletBindingProof(Base64Decode(sid), parsed.address,
                                       config.endpoint,
                                       Base64Decode(config.appPublicKey)),
                    Base64Decode(config.walletSig), extracted.publicKey)
             THEN "true" ELSE "false"

---------------------------------------------------------------------------
(* Input sets *)

SessionBytes == {keyPairFromSeed(s).publicKey : s \in Keys}
SessionIds == [bytes : SessionBytes, form : Forms]
AppKeyStrings == [bytes : Keys, form : Forms]
AddressStrings ==
    [addr : Keys, bounceable : BOOLEAN, valid : {TRUE}]
        \cup {[addr |-> 0, bounceable |-> FALSE, valid |-> FALSE]}
Endpoints == {"connect.tonhubapi.com", "evil.example"}
WalletTypes == {WalletV4, "unknown"}
WalletConfigStrings ==
    [key : Keys, valid : {TRUE}] \cup {[key |-> 0, valid |-> FALSE]}
Proofs ==
    {WalletBindingProof(s, a, e, k) :
        s \in SessionBytes, a \in Keys, e \in Endpoints, k \in Keys}
Signatures == {SignatureBy(k, m) : k \in Keys, m \in Proofs} \cup {JunkSignature}
SigStrings == [bytes : Signatures, form : Forms]

WalletConfigs ==
    [address : AddressStrings, endpoint : Endpoints, walletType : WalletTypes,
     walletConfig : WalletConfigStrings, walletSig : SigStrings,
     appPublicKey : AppKeyStrings]

ConfigFields == {"address", "endpoint", "walletSig", "appPublicKey"}

NoArgs == [changed |-> FALSE, field |-> "none", args |-> <<>>]

---------------------------------------------------------------------------
(* The connector: relay records and their normalisation *)

\* createBackoff({ maxFailureCount: 5 })
MaxFailureCount == 5

\* delay(1000) between two polls, in milliseconds
DelayMs == 1000

\* Clock ticks per second: the resolution of Date.now() in the model.
TicksPerSecond == 2

\* Largest timeout a caller passes, in ticks.
MaxTimeout == 3

\* Longest relay round trip, in ticks.
MaxRTT == 1

\* The relay calls of one operation are counted per method up to this.
CountCap == 2

DelayTicks == (DelayMs * TicksPerSecond) \div 1000

\* What new TonhubConnector(...) is given: nothing, { network: 'testnet' }, or
\* the README's { testnet: true }, an object that has no network field.
ConstructorArgs ==
    {[given |-> FALSE, network |-> "undefined", testnet |-> FALSE],
     [given |-> TRUE, network |-> "testnet", testnet |-> FALSE],
     [given |-> TRUE, network |-> "undefined", testnet |-> TRUE]}

\* constructor(args): the network the connector works on.
constructor(a) ==
    IF a.given /\ a.network # "undefined" THEN a.network ELSE "mainnet"

Methods == {"session_new", "session_get", "session_wait", "command_new",
            "command_get"}

DefaultEndpoint == "connect.tonhubapi.com"

\* toUrlSafe: '+' to '-', '/' to '_', padding removed.
toUrlSafe(s) == [bytes |-> s.bytes, form |-> "url"]

\* createNewSession: the scheme of the link.
LinkSchemeMainnet(net) == "ton://connect/"

LinkScheme(net) ==
    IF net = "testnet" THEN "ton-test://connect/" ELSE "ton://connect/"

\* createNewSession: the link, the concatenation of its three parts.
SessionLink(net, sessionId) ==
    <<LinkScheme(net), sessionId, "?endpoint=", DefaultEndpoint>>

\* idFromSeed without toUrlSafe.
idFromSeedStandard(seed) ==
    Base64Encode(keyPairFromSeed(Base64Decode(seed)).publicKey)

\* idFromSeed(seed)
idFromSeed(seed) ==
    toUrlSafe(Base64Encode(keyPairFromSeed(Base64Decode(seed)).publicKey))

SeedStrings == {Base64Encode(k) : k \in Keys}

\* The seed the calling app holds. The relay holds records of every session
\* (SessionBytes), so one caller seed covers own and foreign sessions.
CallerSeeds == {Base64Encode(CHOOSE k \in Keys : TRUE)}

\* The app public key the caller passes in its requests, as it holds it.
\* Relay records hold every app key in either spelling (AppKeyStrings), so
\* one caller key covers matching and differing records.
CallerAppKeys == {Base64Encode(CHOOSE k \in Keys : TRUE)}

\* The session ids a caller holds: the ids createNewSession returned.
CallSessionIds == {idFromSeed(s) : s \in CallerSeeds}

InvalidAddress == [addr |-> 0, bounceable |-> FALSE, valid |-> FALSE]

NoWallet ==
    [address |-> InvalidAddress, endpoint |-> "", walletType |-> "",
     walletConfig |-> [key |-> 0, valid |-> FALSE],
     walletSig |-> Base64Encode(JunkSignature),
     appPublicKey |-> NoBase64]

\* The config a wallet with key w publishes when it accepts session s for
\* the app key string k.
HonestWallet(w, s, k) ==
    [address |-> [addr |-> contractAddress(w), bounceable |-> TRUE, valid |-> TRUE],
     endpoint |-> DefaultEndpoint,
     walletType |-> WalletV4,
     walletConfig |-> [key |-> w, valid |-> TRUE],
     walletSig |-> Base64Encode(SignatureBy(w,
                     WalletBindingProof(s, contractAddress(w), DefaultEndpoint,
                                        Base64Decode(k)))),
     appPublicKey |-> k]

\* The key of the user's wallet.
WalletKey == CHOOSE w \in Keys : TRUE

HonestWallets ==
    {HonestWallet(WalletKey, s, k) : s \in SessionBytes, k \in AppKeyStrings}

\* Wallet configs a relay may hold: honest ones (also for other sessions),
\* forged ones (no valid signature) and ones whose address does not parse.
RelayWallets ==
    HonestWallets
      \cup {[h EXCEPT !.walletSig = Base64Encode(JunkSignature)] :
              h \in {x \in HonestWallets : x.appPublicKey.form = "std"}}
      \cup {[h EXCEPT !.address = InvalidAddress] :
              h \in {x \in HonestWallets : x.appPublicKey.form = "std"}}

\* The wallet configs of records flagged revoked: one honest, one forged
\* and one whose address does not parse.
RevokedWallets ==
    LET h == CHOOSE x \in HonestWallets : x.appPublicKey.form = "std"
    IN  {h, [h EXCEPT !.walletSig = Base64Encode(JunkSignature)],
         [h EXCEPT !.address = InvalidAddress]}

\* Session records as the relay answers them. state "other" is any state
\* string that is none of not_found, initing, ready.
SessionRecords ==
    [state : {"not_found", "other"}, testnet : {FALSE}, revoked : {FALSE},
     wallet : {NoWallet}]
      \cup [state : {"initing"}, testnet : BOOLEAN, revoked : BOOLEAN,
            wallet : {NoWallet}]
      \cup [state : {"ready"}, testnet : BOOLEAN, revoked : {FALSE},
            wallet : RelayWallets]
      \cup [state : {"ready"}, testnet : BOOLEAN, revoked : {TRUE},
            wallet : RevokedWallets]

\* transport.call rejects (network error, timeout, non-2xx answer).
TransportFailure ==
    [state |-> "transport_error", testnet |-> FALSE, revoked |-> FALSE,
     wallet |-> NoWallet]

NoRecord ==
    [state |-> "none", testnet |-> FALSE, revoked |-> FALSE, wallet |-> NoWallet]

SessionAnswers == SessionRecords \cup {TransportFailure}

Return(v) == [kind |-> "return", value |-> v, error |-> ""]
Throw(e) == [kind |-> "throw", value |-> [state |-> "none", wallet |-> NoWallet], error |-> e]
NoResult == [kind |-> "none", value |-> [state |-> "none", wallet |-> NoWallet], error |-> ""]

IntegrityError == "Integrity check failed"

\* ensureSessionStateCorrect(sessionId, ex) of a connector on `network`.
ensureSessionStateCorrectNoVerify(sessionId, ex) ==
    IF ex.state = "initing"
    THEN IF ex.testnet # (network = "testnet")
         THEN Return([state |-> "revoked", wallet |-> NoWallet])
         ELSE Return([state |-> "initing", wallet |-> NoWallet])
    ELSE IF ex.state = "ready"
    THEN IF ex.revoked
         THEN Return([state |-> "revoked", wallet |-> NoWallet])
         ELSE IF ex.testnet # (network = "testnet")
         THEN Return([state |-> "revoked", wallet |-> NoWallet])
         ELSE Return([state |-> "ready", wallet |-> ex.wallet])
    ELSE Return([state |-> "revoked", wallet |-> NoWallet])

ensureSessionStateCorrectNoNetwork(sessionId, ex) ==
    IF ex.state = "initing"
    THEN Return([state |-> "initing", wallet |-> NoWallet])
    ELSE IF ex.state = "ready"
    THEN IF ex.revoked
         THEN Return([state |-> "revoked", wallet |-> NoWallet])
         ELSE LET ok == verifyWalletConfig(sessionId, ex.wallet)
              IN  IF ok = "throw" THEN Throw("Invalid address")
                  ELSE IF ok = "false" THEN Throw(IntegrityError)
                  ELSE Return([state |-> "ready", wallet |-> ex.wallet])
    ELSE Return([state |-> "revoked", wallet |-> NoWallet])

\* ensureSessionStateCorrect that looks at the revoked flag of an initing
\* record too.
ensureSessionStateCorrectInitingRevoked(sessionId, ex) ==
    IF ex.state = "initing"
    THEN IF ex.revoked
         THEN Return([state |-> "revoked", wallet |-> NoWallet])
         ELSE IF ex.testnet # (network = "testnet")
         THEN Return([state |-> "revoked", wallet |-> NoWallet])
         ELSE Return([state |-> "initing", wallet |-> NoWallet])
    ELSE IF ex.state = "ready"
    THEN IF ex.revoked
         THEN Return([state |-> "revoked", wallet |-> NoWallet])
         ELSE IF ex.testnet # (network = "testnet")
         THEN Return([state |-> "revoked", wallet |-> NoWallet])
         ELSE LET ok == verifyWalletConfig(sessionId, ex.wallet)
              IN  IF ok = "throw" THEN Throw("Invalid address")
                  ELSE IF ok = "false" THEN Throw(IntegrityError)
                  ELSE Return([state |-> "ready", wallet |-> ex.wallet])
    ELSE Return([state |-> "revoked", wallet |-> NoWallet])

\* ensureSessionStateCorrect that hands a record that is neither initing
\* nor ready on as not_found.
ensureSessionStateCorrectNotFound(sessionId, ex) ==
    IF ex.state = "initing"
    THEN IF ex.testnet # (network = "testnet")
         THEN Return([state |-> "revoked", wallet |-> NoWallet])
         ELSE Return([state |-> "initing", wallet |-> NoWallet])
    ELSE IF ex.state = "ready"
    THEN IF ex.revoked
         THEN Return([state |-> "revoked", wallet |-> NoWallet])
         ELSE IF ex.testnet # (network = "testnet")
         THEN Return([state |-> "revoked", wallet |-> NoWallet])
         ELSE LET ok == verifyWalletConfig(sessionId, ex.wallet)
              IN  IF ok = "throw" THEN Throw("Invalid address")
                  ELSE IF ok = "false" THEN Throw(IntegrityError)
                  ELSE Return([state |-> "ready", wallet |-> ex.wallet])
    ELSE Return([state |-> "not_found", wallet |-> NoWallet])

\* ensureSessionStateCorrect that verifies the wallet of a ready record
\* before it looks at the revoked flag and the network.
ensureSessionStateCorrectVerifyFirst(sessionId, ex) ==
    IF ex.state = "initing"
    THEN IF ex.testnet # (network = "testnet")
         THEN Return([state |-> "revoked", wallet |-> NoWallet])
         ELSE Return([state |-> "initing", wallet |-> NoWallet])
    ELSE IF ex.state = "ready"
    THEN LET ok == verifyWalletConfig(sessionId, ex.wallet)
         IN  IF ok = "throw" THEN Throw("Invalid address")
             ELSE IF ok = "false" THEN Throw(IntegrityError)
             ELSE IF ex.revoked
             THEN Return([state |-> "revoked", wallet |-> NoWallet])
             ELSE IF ex.testnet # (network = "testnet")
             THEN Return([state |-> "revoked", wallet |-> NoWallet])
             ELSE Return([state |-> "ready", wallet |-> ex.wallet])
    ELSE Return([state |-> "revoked", wallet |-> NoWallet])

ensureSessionStateCorrect(sessionId, ex) ==
    IF ex.state = "initing"
    THEN IF ex.testnet # (network = "testnet")
         THEN Return([state |-> "revoked", wallet |-> NoWallet])
         ELSE Return([state |-> "initing", wallet |-> NoWallet])
    ELSE IF ex.state = "ready"
    THEN IF ex.revoked
         THEN Return([state |-> "revoked", wallet |-> NoWallet])
         ELSE IF ex.testnet # (network = "testnet")
         THEN Return([state |-> "revoked", wallet |-> NoWallet])
         ELSE LET ok == verifyWalletConfig(sessionId, ex.wallet)
              IN  IF ok = "throw" THEN Throw("Invalid address")
                  ELSE IF ok = "false" THEN Throw(IntegrityError)
                  ELSE Return([state |-> "ready", wallet |-> ex.wallet])
    ELSE Return([state |-> "revoked", wallet |-> NoWallet])

\* backoff(callback): after a failure of the callback, whether the failure
\* is raised to the caller (the failure count has reached the maximum) or
\* the callback is run again after a delay.
BackoffGivesUp(failures) == failures + 1 >= MaxFailureCount

\* requestTransaction / requestSign: the check of the fetched session.
SessionValidNoKeyCheck(sessionState, request) ==
    sessionState.state = "ready"

SessionValid(sessionState, request) ==
    /\ sessionState.state = "ready"
    /\ sessionState.wallet.appPublicKey = request.appPublicKey

\* awaitSessionReady: the states its loop returns; on any other state it
\* sleeps and polls again.
AwaitReturnsAlways(state) == TRUE

AwaitReturnsOnlyReady(state) == state = "ready"

AwaitReturns(state) == state = "ready" \/ state = "revoked"

\* awaitSessionReady: the time at which the loop goes on after a poll that
\* took rtt and returned initing: the poll is followed by delay(1000).
AfterPollNoDelay(time, rtt) == time + rtt

AfterPoll(time, rtt) == time + rtt + DelayTicks

\* awaitSessionReady: the loop condition Date.now() < expires.
DeadlineOpenInclusive(time, deadline) == time <= deadline

DeadlineOpen(time, deadline) == time < deadline

\* One relay call of session_get / session_wait and the normalisation of
\* its answer, as the callback of getSessionState / waitForSessionState.
SessionOutcomeWaitUnchecked(ans) ==
    IF ans = TransportFailure THEN Throw("transport")
    ELSE IF op = "waitForSessionState"
    THEN ensureSessionStateCorrectNoNetwork(req.sessionId, ans)
    ELSE ensureSessionStateCorrect(req.sessionId, ans)

SessionOutcome(ans) ==
    IF ans = TransportFailure THEN Throw("transport")
    ELSE ensureSessionStateCorrect(req.sessionId, ans)

---------------------------------------------------------------------------
(* The connector: jobs *)

\* A request's optional string (text, payload): undefined/null or a string.
Null == [isString |-> FALSE, value |-> ""]
Str(v) == [isString |-> TRUE, value |-> v]

Texts == {Null, Str(""), Str("hello")}
Payloads == {Null, Str("payload-boc"), Str("not-a-boc")}

\* Whether Cell.fromBoc(Buffer.from(payload, 'base64')) finds a cell.
IsBoc(payload) == payload # "not-a-boc"

EmptyCell == <<>>

\* comment(text): a cell of a 32-bit zero opcode and the text.
comment(text) == <<"op0", text>>

\* Cell.fromBoc(Buffer.from(payload, 'base64'))[0]
PayloadCell(payload) == <<"boc", payload>>

\* The cell verifySignatureResponse signs over.
SignResponsePayload(textCell, payloadCell) == <<textCell, payloadCell>>

\* The friendly address an app sends coins to.
Destination == [addr |-> 1, bounceable |-> TRUE, valid |-> TRUE]

NoRequest ==
    [sessionId |-> NoBase64, seed |-> NoBase64, appPublicKey |-> NoBase64,
     to |-> Destination, text |-> Null, payload |-> Null, timeout |-> 0,
     name |-> "", url |-> "", lastUpdated |-> 0]

\* requestTransaction / requestSign: whether the parsing of the request's
\* own fields succeeds (it throws otherwise): the destination address of a
\* transaction, and the payload if there is one.
RequestParses(operation, request) ==
    /\ operation = "requestTransaction" => ParseFriendly(request.to).ok
    /\ request.payload.isString => IsBoc(request.payload.value)

\* Width of the fields the code writes with storeUint(value, 32): the job's
\* expiry and the times of a local config. The model keeps the arithmetic
\* and scales the width down so that values on both sides of 2^Uint32Bits
\* are within reach.
Uint32Bits == 3

Uint32Limit == 2 ^ Uint32Bits

\* Clock values and timeouts, in ticks: up to the first clock value whose
\* second no longer fits the field; timeouts may be negative.
MaxClock == TicksPerSecond * Uint32Limit

NoValue == [kind |-> "none", value |-> 0]

\* builder.storeUint(value, bits) that keeps the low bits of the value.
storeUintWrap(value, bits) == [kind |-> "stored", value |-> value % (2 ^ bits)]

\* builder.storeUint(value, bits): the value written, or the exception for
\* a value outside 0 .. 2^bits - 1.
storeUint(value, bits) ==
    IF value < 0 \/ value >= 2 ^ bits
    THEN [kind |-> "throw", value |-> 0]
    ELSE [kind |-> "stored", value |-> value]

\* Math.floor((Date.now() + request.timeout) / 1000)
JobExpiry(time, timeout) == (time + timeout) \div TicksPerSecond

\* The job cell of requestTransaction.
TransactionJob(sessionState, request, time) ==
    <<Base64Decode(sessionState.wallet.appPublicKey),
      JobExpiry(time, request.timeout), "coins0",
      <<ParseFriendly(request.to).address, "value",
        IF request.text.isString THEN request.text.value ELSE "",
        IF request.payload.isString THEN PayloadCell(request.payload.value)
        ELSE EmptyCell>> >>

\* A sign job that carries the marker of a transaction job.
SignJobMarkerZero(sessionState, request, time) ==
    <<Base64Decode(sessionState.wallet.appPublicKey),
      JobExpiry(time, request.timeout), "coins0",
      <<comment(IF request.text.isString THEN request.text.value ELSE ""),
        IF request.payload.isString THEN PayloadCell(request.payload.value)
        ELSE EmptyCell>> >>

\* The job cell of requestSign.
SignJob(sessionState, request, time) ==
    <<Base64Decode(sessionState.wallet.appPublicKey),
      JobExpiry(time, request.timeout), "coins1",
      <<comment(IF request.text.isString THEN request.text.value ELSE ""),
        IF request.payload.isString THEN PayloadCell(request.payload.value)
        ELSE EmptyCell>> >>

\* A package cell that does not carry the signature it was given.
PackageCellUnsigned(signature, publicKey, job) ==
    [data |-> <<JunkSignature, publicKey>>, refs |-> <<job>>]

\* The package cell: beginCell().storeBuffer(signature)
\* .storeBuffer(keypair.publicKey).storeRef(job).endCell()

PackageCell(signature, publicKey, job) ==
    [data |-> <<signature, publicKey>>, refs |-> <<job>>]

\* A package signed with, and carrying, a key other than the seed's.
PackageBocOtherKey(job, seed) ==
    LET keypair == keyPairFromSeed(Base64Decode(seed))
        other == CHOOSE k \in Keys : k # keypair.publicKey
    IN  Base64Encode(PackageCell(SignatureBy(other, job), other, job))

\* The signed package, serialised: pkg.toBoc({ idx: false }).toString('base64')
PackageBoc(job, seed) ==
    LET keypair == keyPairFromSeed(Base64Decode(seed))
    IN  Base64Encode(PackageCell(SignatureBy(keypair.publicKey, job),
                                 keypair.publicKey, job))

NoBoc == Base64Encode(PackageCell(JunkSignature, 0, <<>>))

\* The blob of some other job filed under the same app key.
ForeignBoc == Base64Encode(PackageCell(JunkSignature, 0, <<"foreign">>))

\* What a wallet may have signed in a sign result.
ResultSignatures ==
    {SignatureBy(w, SignResponsePayload(t, d)) :
        w \in Keys,
        t \in {EmptyCell, comment(""), comment("hello")},
        d \in {EmptyCell, PayloadCell("payload-boc")}}
      \cup {JunkSignature}

\* Result strings of a completed job: a BOC whose root cell starts with 64
\* bytes, a BOC whose root cell is shorter, or a string that is no BOC.
JobResults ==
    [kind : {"boc"}, signature : ResultSignatures]
      \cup [kind : {"short", "notboc"}, signature : {JunkSignature}]

NoJobResult == [kind |-> "none", signature |-> JunkSignature]

\* Job records as the relay answers them; state "other" is any state string
\* outside the five known ones.
JobRecords(submitted) ==
    [state : {"empty"}, job : {NoBoc}, result : {NoJobResult}]
      \cup [state : {"submitted", "expired", "rejected", "other"},
            job : {submitted, ForeignBoc}, result : {NoJobResult}]
      \cup [state : {"completed"}, job : {submitted}, result : JobResults]
      \cup [state : {"completed"}, job : {ForeignBoc},
            result : {[kind |-> "boc", signature |-> JunkSignature]}]

\* The records a relay may settle on for the rest of a job's polling.
SettledRecords(submitted) ==
    {r \in JobRecords(submitted) :
        /\ r.state # "other"
        /\ r.job = ForeignBoc => r.state = "completed"
        /\ r.result \in {NoJobResult,
                         [kind |-> "boc", signature |-> JunkSignature]}}

JobTransportFailure ==
    [state |-> "transport_error", job |-> NoBoc, result |-> NoJobResult]

NoJob == [state |-> "none", job |-> NoBoc, result |-> NoJobResult]

\* _getJobState: the mapping of the relay's answer res for the blob this
\* call submitted; "throw" is 'Invalid response from server'.
getJobStateIgnoreJob(res, submitted) ==
    IF res.state = "empty" THEN "expired"
    ELSE IF res.state = "expired" THEN "expired"
    ELSE IF res.state = "submitted" THEN "submitted"
    ELSE IF res.state = "rejected" THEN "rejected"
    ELSE IF res.state = "completed" THEN "completed"
    ELSE "throw"

\* _getJobState that takes the relay's empty for a job still pending.
getJobStateEmptyPending(res, submitted) ==
    IF res.state = "empty" THEN "submitted"
    ELSE IF res.job # submitted THEN "rejected"
    ELSE IF res.state = "expired" THEN "expired"
    ELSE IF res.state = "submitted" THEN "submitted"
    ELSE IF res.state = "rejected" THEN "rejected"
    ELSE IF res.state = "completed" THEN "completed"
    ELSE "throw"

\* _getJobState that looks at the reported state before the job blob.
getJobStateStateFirst(res, submitted) ==
    IF res.state = "empty" THEN "expired"
    ELSE IF res.state = "expired" THEN "expired"
    ELSE IF res.state = "submitted" THEN "submitted"
    ELSE IF res.job # submitted THEN "rejected"
    ELSE IF res.state = "rejected" THEN "rejected"
    ELSE IF res.state = "completed" THEN "completed"
    ELSE "throw"

getJobState(res, submitted) ==
    IF res.state = "empty" THEN "expired"
    ELSE IF res.job # submitted THEN "rejected"
    ELSE IF res.state = "expired" THEN "expired"
    ELSE IF res.state = "submitted" THEN "submitted"
    ELSE IF res.state = "rejected" THEN "rejected"
    ELSE IF res.state = "completed" THEN "completed"
    ELSE "throw"

\* verifySignatureResponse that leaves the payload out of the signed cell.
verifySignatureResponseNoPayload(signature, text, payload, config) ==
    LET parsed == ParseFriendly(config.address)
        extracted == extractPublicKeyAndAddress(config)
        textCell == IF text.isString /\ text.value # ""
                    THEN comment(text.value) ELSE EmptyCell
    IN  IF ~parsed.ok THEN "throw"
        ELSE IF extracted.kind = "throw" THEN "throw"
        ELSE IF extracted.kind = "null" THEN "false"
        ELSE IF extracted.address # parsed.address THEN "false"
        ELSE IF safeSignVerify(SignResponsePayload(textCell, EmptyCell),
                               Base64Decode(signature), extracted.publicKey)
             THEN "true" ELSE "false"

\* verifySignatureResponse({signature, text, payload, config})
verifySignatureResponse(signature, text, payload, config) ==
    LET parsed == ParseFriendly(config.address)
        extracted == extractPublicKeyAndAddress(config)
        textCell == IF text.isString /\ text.value # ""
                    THEN comment(text.value) ELSE EmptyCell
        payloadCell == IF payload.isString THEN PayloadCell(payload.value)
                       ELSE EmptyCell
    IN  IF ~parsed.ok THEN "throw"
        ELSE IF extracted.kind = "throw" THEN "throw"
        ELSE IF extracted.kind = "null" THEN "false"
        ELSE IF extracted.address # parsed.address THEN "false"
        ELSE IF safeSignVerify(SignResponsePayload(textCell, payloadCell),
                               Base64Decode(signature), extracted.publicKey)
             THEN "true" ELSE "false"

JobReturn(type, response) ==
    [kind |-> "return", value |-> [type |-> type, response |-> response],
     error |-> ""]

\* requestSign's handling of a completed job, with a signature that does
\* not verify raised as an error.
SignCompletedThrows(res, request, sessionState) ==
    IF res.result.kind = "notboc" THEN Throw("Invalid BOC")
    ELSE IF res.result.kind = "short" THEN Throw("Index out of bounds")
    ELSE LET resSignature == res.result.signature
             correct == verifySignatureResponse(Base64Encode(resSignature),
                            request.text, request.payload, sessionState.wallet)
         IN  IF correct = "true" THEN JobReturn("success", res.result)
             ELSE Throw("Invalid signature")

\* requestSign's handling of a completed job: parse the result, read 64
\* bytes, verify them; exceptions of the parse leave requestSign.
SignCompleted(res, request, sessionState) ==
    IF res.result.kind = "notboc" THEN Throw("Invalid BOC")
    ELSE IF res.result.kind = "short" THEN Throw("Index out of bounds")
    ELSE LET resSignature == res.result.signature
             correct == verifySignatureResponse(Base64Encode(resSignature),
                            request.text, request.payload, sessionState.wallet)
         IN  IF correct = "throw" THEN Throw("Invalid address")
             ELSE IF correct = "true" THEN JobReturn("success", res.result)
             ELSE JobReturn("rejected", NoJobResult)

---------------------------------------------------------------------------
(* Spec: one public operation of a connector against a relay that may     *)
(* answer anything                                                         *)

\* What is remembered of the relay calls made so far. flagged is the
\* outcome of the last call if the relay answered it with a ready record
\* that is flagged revoked or is of the other network.
NoHistory ==
    [integrity |-> FALSE, later |-> FALSE, failed |-> FALSE, terminal |-> FALSE,
     flagged |-> NoResult]

\* The arguments of a relay call, as the connector builds them from the
\* call in progress: the session key and network flag of session_new, the
\* id of session_get / session_wait, the job of command_new, the appk of
\* command_get.
\* The lastUpdated a caller passes: none (sent as 0) or a timestamp.
LastUpdates == {0, 1}

\* The updated timestamp of a relay record: later than any lastUpdated a
\* caller holds.
RecordUpdated(ex) == 2

\* The lastUpdated argument of session_wait: the one the caller passed,
\* whatever record an earlier poll returned.
WaitLastUpdatedAdvanced(request, last) ==
    IF last.state = "initing" THEN RecordUpdated(last)
    ELSE request.lastUpdated

WaitLastUpdated(request, last) == request.lastUpdated

\* The answer of a call is the record the relay answered or, for
\* session_new and command_new, "ok" ({ok: true}), "not_ok" or
\* "transport_error" (the transport rejected); of these the message keeps
\* "ok", "not_ok" or "error".
NoMessage ==
    [method |-> "none", id |-> NoBase64, testnet |-> FALSE, name |-> "",
     url |-> "", lastUpdated |-> 0, job |-> NoBoc, answer |-> "none"]

Message(method, answer) ==
    [method |-> method,
     id |-> IF method = "command_get" THEN toUrlSafe(req.appPublicKey)
            ELSE IF method = "command_new" THEN NoBase64
            ELSE req.sessionId,
     testnet |-> (method = "session_new" /\ network = "testnet"),
     name |-> IF method = "session_new" THEN req.name ELSE "",
     url |-> IF method = "session_new" THEN req.url ELSE "",
     lastUpdated |-> IF method = "session_wait"
                     THEN WaitLastUpdated(req, rec) ELSE 0,
     job |-> IF method = "command_new" THEN boc ELSE NoBoc,
     answer |-> IF method \in {"session_new", "command_new"}
                THEN (IF answer = "transport_error" THEN "error" ELSE answer)
                ELSE "none"]

SessionOps == {"getSessionState", "waitForSessionState", "awaitSessionReady"}
RequestOps == {"requestTransaction", "requestSign"}

Init ==
    /\ vin = <<>>
    /\ vout = "none"
    /\ vbase = NoArgs
    /\ args \in ConstructorArgs
    /\ network = constructor(args)
    /\ op = "none"
    /\ pc = "idle"
    /\ req = NoRequest
    /\ fails = 0
    /\ ofails = 0
    /\ rec = NoRecord
    /\ session = [state |-> "none", wallet |-> NoWallet]
    /\ boc = NoBoc
    /\ jrec = NoJob
    /\ result = NoResult
    /\ sent = NoMessage
    /\ relay = NoJob
    /\ calls = [m \in Methods |-> 0]
    /\ hist = NoHistory
    /\ now = 0
    /\ expires = 0

\* The bookkeeping of one transport.call(method) whose callback ended as
\* out: the call is counted and the history is kept.
RelayCalled(method, answer, out) ==
    /\ sent' = Message(method, answer)
    /\ calls' = [calls EXCEPT ![method] = IF @ < CountCap THEN @ + 1 ELSE @]
    /\ hist' = [integrity |-> hist.integrity \/ out.error = IntegrityError,
                later |-> hist.integrity,
                failed |-> hist.failed \/ out.kind = "throw",
                terminal |-> hist.terminal
                    \/ (/\ method \in {"session_get", "session_wait"}
                        /\ out.kind = "return"
                        /\ out.value.state \in {"ready", "revoked"}),
                flagged |-> IF /\ method \in {"session_get", "session_wait"}
                               /\ answer.state = "ready"
                               /\ \/ answer.revoked
                                  \/ answer.testnet # (network = "testnet")
                            THEN out ELSE NoResult]

\* getSessionState(sessionId) is called.
CallGetSessionState ==
    /\ pc = "idle"
    /\ \E id \in CallSessionIds :
         req' = [NoRequest EXCEPT !.sessionId = id]
    /\ op' = "getSessionState"
    /\ pc' = "session"
    /\ UNCHANGED <<verifyVars, args, sent, relay, network, fails, ofails, rec, session, boc, jrec,
                   result, calls, hist, now, expires>>

\* waitForSessionState(sessionId, lastUpdated) is called.
CallWaitForSessionState ==
    /\ pc = "idle"
    /\ \E id \in CallSessionIds, lastUpdated \in LastUpdates :
         req' = [NoRequest EXCEPT !.sessionId = id,
                                 !.lastUpdated = lastUpdated]
    /\ op' = "waitForSessionState"
    /\ pc' = "session"
    /\ UNCHANGED <<verifyVars, args, sent, relay, network, fails, ofails, rec, session, boc, jrec,
                   result, calls, hist, now, expires>>

\* getSessionState / waitForSessionState: one run of the backoff callback,
\* the relay call and ensureSessionStateCorrect. An exception of the callback
\* (of the transport or of ensureSessionStateCorrect) is caught by backoff.
SessionFetch ==
    /\ pc = "session"
    /\ op \in {"getSessionState", "waitForSessionState"}
    /\ \E ans \in SessionAnswers :
         LET out == SessionOutcome(ans)
         IN  /\ RelayCalled(IF op = "getSessionState" THEN "session_get"
                            ELSE "session_wait",
                            ans, out)
             /\ rec' = ans
             /\ IF out.kind = "return" \/ BackoffGivesUp(fails)
                THEN /\ result' = out
                     /\ pc' = "done"
                     /\ fails' = 0
                ELSE /\ fails' = fails + 1
                     /\ UNCHANGED <<result, pc>>
    /\ UNCHANGED <<verifyVars, args, relay, network, op, req, ofails, session, boc, jrec,
                   now, expires>>

\* awaitSessionReady(sessionId, timeout, lastUpdated) is called: the
\* deadline is taken, then backoff runs the polling loop.
CallAwaitSessionReady ==
    /\ pc = "idle"
    /\ \E id \in CallSessionIds, timeout \in 0..MaxTimeout :
         /\ req' = [NoRequest EXCEPT
                      !.sessionId = id, !.timeout = timeout,
                      !.lastUpdated = CHOOSE u \in LastUpdates : u # 0]
         /\ expires' = now + timeout
    /\ op' = "awaitSessionReady"
    /\ pc' = "loop"
    /\ UNCHANGED <<verifyVars, args, sent, relay, network, fails, ofails, rec, session, boc, jrec,
                   result, calls, hist, now>>

\* awaitSessionReady: while (Date.now() < expires) ... return expired.
AwaitLoop ==
    /\ pc = "loop"
    /\ op = "awaitSessionReady"
    /\ IF DeadlineOpen(now, expires)
       THEN /\ pc' = "session"
            /\ fails' = 0
            /\ UNCHANGED result
       ELSE /\ pc' = "done"
            /\ result' = Return([state |-> "expired", wallet |-> NoWallet])
            /\ fails' = 0
    /\ ofails' = IF DeadlineOpen(now, expires) THEN ofails ELSE 0
    /\ UNCHANGED <<verifyVars, args, sent, relay, network, op, req, rec, session, boc, jrec,
                   calls, hist, now, expires>>

\* awaitSessionReady: one relay call of its waitForSessionState. A ready or
\* revoked state is returned; any other state is followed by delay(1000) and
\* the next turn of the loop. An exception is retried by the backoff of
\* waitForSessionState and, once that gives up, by the backoff around the
\* loop, which starts the loop again.
AwaitPoll ==
    /\ pc = "session"
    /\ op = "awaitSessionReady"
    /\ \E ans \in SessionAnswers, rtt \in 0..MaxRTT :
         LET out == SessionOutcome(ans)
         IN  /\ RelayCalled("session_wait", ans, out)
             /\ IF out.kind = "return"
                THEN IF AwaitReturns(out.value.state)
                     THEN /\ result' = out
                          /\ rec' = ans
                          /\ pc' = "done"
                          /\ now' = now + rtt
                          /\ fails' = 0
                          /\ ofails' = 0
                     ELSE /\ pc' = "loop"
                          /\ rec' = ans
                          /\ now' = AfterPoll(now, rtt)
                          /\ UNCHANGED <<result, fails, ofails>>
                ELSE IF ~BackoffGivesUp(fails)
                THEN /\ fails' = fails + 1
                     /\ now' = now + rtt
                     /\ UNCHANGED <<result, rec, pc, ofails>>
                ELSE IF ~BackoffGivesUp(ofails)
                THEN /\ ofails' = ofails + 1
                     /\ pc' = "loop"
                     /\ now' = now + rtt
                     /\ UNCHANGED <<result, rec, fails>>
                ELSE /\ result' = out
                     /\ pc' = "done"
                     /\ now' = now + rtt
                     /\ fails' = 0
                     /\ ofails' = 0
                     /\ UNCHANGED rec
    /\ UNCHANGED <<verifyVars, args, relay, network, op, req, session, boc, jrec, expires>>

\* requestTransaction(request) is called.
CallRequestTransaction ==
    /\ pc = "idle"
    /\ \E seed \in CallerSeeds, k \in CallerAppKeys, t \in {Null, Str("hello")},
          d \in Payloads, a \in {Destination, InvalidAddress} :
         req' = [NoRequest EXCEPT
                   !.sessionId = idFromSeed(seed), !.seed = seed,
                   !.appPublicKey = k, !.to = a, !.text = t, !.payload = d,
                   !.timeout = MaxTimeout]
    /\ op' = "requestTransaction"
    /\ pc' = "session"
    /\ UNCHANGED <<verifyVars, args, sent, relay, network, fails, ofails, rec, session, boc, jrec,
                   result, calls, hist, now, expires>>

\* requestSign(request) is called.
CallRequestSign ==
    /\ pc = "idle"
    /\ \E seed \in CallerSeeds, k \in CallerAppKeys, t \in Texts, d \in Payloads :
         req' = [NoRequest EXCEPT
                   !.sessionId = idFromSeed(seed), !.seed = seed,
                   !.appPublicKey = k, !.text = t, !.payload = d,
                   !.timeout = MaxTimeout]
    /\ op' = "requestSign"
    /\ pc' = "session"
    /\ UNCHANGED <<verifyVars, args, sent, relay, network, fails, ofails, rec, session, boc, jrec,
                   result, calls, hist, now, expires>>

\* requestTransaction / requestSign: backoff(() => getSessionState(id)), one
\* relay call at a time, then the session check, then the request's fields
\* are parsed (an exception of the parse leaves the call), then the job is
\* built, signed and packed.
RequestSession ==
    /\ pc = "session"
    /\ op \in RequestOps
    /\ \E ans \in SessionAnswers :
         LET out == SessionOutcome(ans)
         IN  /\ RelayCalled("session_get", ans, out)
             /\ rec' = IF out.kind = "return" THEN ans ELSE rec
             /\ IF out.kind = "return"
                THEN IF ~SessionValid(out.value, req)
                     THEN /\ result' = JobReturn("invalid_session", NoJobResult)
                          /\ pc' = "done"
                          /\ fails' = 0
                          /\ ofails' = 0
                          /\ UNCHANGED <<session, boc>>
                     ELSE IF ~RequestParses(op, req)
                     THEN /\ result' = Throw("Invalid request")
                          /\ pc' = "done"
                          /\ fails' = 0
                          /\ ofails' = 0
                          /\ UNCHANGED <<session, boc>>
                     ELSE /\ session' = out.value
                          /\ boc' = PackageBoc(
                                      IF op = "requestTransaction"
                                      THEN TransactionJob(out.value, req, now)
                                      ELSE SignJob(out.value, req, now),
                                      req.seed)
                          /\ pc' = "command_new"
                          /\ fails' = 0
                          /\ ofails' = 0
                          /\ UNCHANGED result
                ELSE IF ~BackoffGivesUp(fails)
                THEN /\ fails' = fails + 1
                     /\ UNCHANGED <<result, pc, ofails, session, boc>>
                ELSE IF ~BackoffGivesUp(ofails)
                THEN /\ ofails' = ofails + 1
                     /\ fails' = 0
                     /\ UNCHANGED <<result, pc, session, boc>>
                ELSE /\ result' = out
                     /\ pc' = "done"
                     /\ fails' = 0
                     /\ ofails' = 0
                     /\ UNCHANGED <<session, boc>>
    /\ UNCHANGED <<verifyVars, args, relay, network, op, req, jrec, now, expires>>

\* Whether the backoff callback around command_new passes: the call is
\* awaited and its answer dropped, so it passes unless the transport throws.
CommandNewResolvedAlways(ans) == TRUE

CommandNewResolved(ans) == ans # "transport_error"

\* requestTransaction / requestSign: backoff(() => call('command_new', ...)).
\* The answer of the relay is not looked at.
CommandNew ==
    /\ pc = "command_new"
    /\ \E ans \in {"transport_error", "ok", "not_ok"} :
         /\ RelayCalled("command_new", ans,
                        IF ans = "transport_error" THEN Throw("transport")
                        ELSE NoResult)
         /\ IF CommandNewResolved(ans)
            THEN /\ pc' = "command_get"
                 /\ fails' = 0
                 /\ UNCHANGED result
            ELSE IF ~BackoffGivesUp(fails)
            THEN /\ fails' = fails + 1
                 /\ UNCHANGED <<pc, result>>
            ELSE /\ result' = Throw("transport")
                 /\ pc' = "done"
                 /\ fails' = 0
    /\ UNCHANGED <<verifyVars, args, relay, network, op, req, ofails, rec, session, boc, jrec,
                   now, expires>>

\* _awaitJobState: one command_get of the polling loop and what the request
\* makes of the state that ends the loop.
CommandGet ==
    /\ pc = "command_get"
    /\ \E ans \in (IF relay = NoJob
                  THEN JobRecords(boc) \cup {JobTransportFailure}
                  ELSE {relay}) :
         LET state == IF ans = JobTransportFailure THEN "throw"
                      ELSE getJobState(ans, boc)
         IN  /\ RelayCalled("command_get", ans,
                         IF state = "throw" THEN Throw("transport") ELSE NoResult)
             /\ jrec' = IF state \in {"throw", "submitted"} THEN jrec ELSE ans
             /\ IF state = "throw"
                THEN IF ~BackoffGivesUp(fails)
                     THEN /\ fails' = fails + 1
                          /\ UNCHANGED <<pc, result>>
                     ELSE /\ result' = Throw(IF ans = JobTransportFailure
                                             THEN "transport"
                                             ELSE "Invalid response from server")
                          /\ pc' = "done"
                          /\ fails' = 0
                ELSE IF state = "submitted"
                THEN /\ pc' = "job_delay"
                     /\ UNCHANGED <<result, fails>>
                ELSE /\ pc' = "done"
                     /\ fails' = 0
                     /\ result' =
                          IF state = "completed"
                          THEN IF op = "requestSign"
                               THEN SignCompleted(ans, req, session)
                               ELSE JobReturn("success", ans.result)
                          ELSE IF state = "rejected"
                          THEN JobReturn("rejected", NoJobResult)
                          ELSE JobReturn("expired", NoJobResult)
    /\ UNCHANGED <<verifyVars, args, relay, network, op, req, ofails, rec, session, boc, now,
                   expires>>

\* _awaitJobState: the delay(1000) after a poll that found the job still
\* submitted, then the next turn of the loop.
JobDelay ==
    /\ pc = "job_delay"
    /\ pc' = "command_get"
    /\ UNCHANGED <<verifyVars, args, sent, relay, network, op, req, fails,
                   ofails, rec, session, boc, jrec, result, calls, hist, now,
                   expires>>

\* The relay settles on one record for the job: from now on every
\* command_get is answered with it.
RelaySettles ==
    /\ pc = "command_get"
    /\ relay = NoJob
    /\ relay' \in SettledRecords(boc)
    /\ UNCHANGED <<verifyVars, args, sent, network, op, pc, req, fails, ofails,
                   rec, session, boc, jrec, result, calls, hist, now, expires>>

\* The name and the url an app passes to createNewSession.
AppNames == {"Your app name", "Other app name"}
AppUrls == {"Your app url", "Other app url"}

\* createNewSession({ name, url }) is called: a fresh seed is drawn and the
\* session id derived from its public key.
CallCreateNewSession ==
    /\ pc = "idle"
    /\ \E seed \in Keys, name \in AppNames, url \in AppUrls :
         req' = [NoRequest EXCEPT
                   !.name = name,
                   !.url = url,
                   !.seed = Base64Encode(seed),
                   !.sessionId =
                      toUrlSafe(Base64Encode(keyPairFromSeed(seed).publicKey))]
    /\ op' = "createNewSession"
    /\ pc' = "session_new"
    /\ UNCHANGED <<verifyVars, args, sent, relay, network, fails, ofails, rec,
                   session, boc, jrec, result, calls, hist, now, expires>>

\* createNewSession: what its backoff callback makes of the relay's answer
\* to session_new, and what the call returns once the callback has passed.
SessionNewOutcomeAnyAnswer(ans) ==
    IF ans = "transport_error" THEN Throw("transport")
    ELSE Return([id |-> req.sessionId, seed |-> req.seed,
                 link |-> SessionLink(network, req.sessionId)])

SessionNewOutcome(ans) ==
    IF ans = "transport_error" THEN Throw("transport")
    ELSE IF ans = "not_ok" THEN Throw("Unable to create state")
    ELSE Return([id |-> req.sessionId, seed |-> req.seed,
                 link |-> SessionLink(network, req.sessionId)])

\* createNewSession: one run of the backoff callback, the session_new call
\* and the check of session.ok, then the result.
SessionNew ==
    /\ pc = "session_new"
    /\ \E ans \in {"transport_error", "ok", "not_ok"} :
         LET out == SessionNewOutcome(ans)
         IN  /\ RelayCalled("session_new", ans, out)
             /\ IF out.kind = "return" \/ BackoffGivesUp(fails)
                THEN /\ result' = out
                     /\ pc' = "done"
                     /\ fails' = 0
                ELSE /\ fails' = fails + 1
                     /\ UNCHANGED <<result, pc>>
    /\ UNCHANGED <<verifyVars, args, relay, network, op, req, ofails, rec,
                   session, boc, jrec, now, expires>>

Next ==
    \/ CallCreateNewSession
    \/ SessionNew
    \/ JobDelay
    \/ RelaySettles
    \/ CallGetSessionState
    \/ CallWaitForSessionState
    \/ SessionFetch
    \/ CallAwaitSessionReady
    \/ AwaitLoop
    \/ AwaitPoll
    \/ CallRequestTransaction
    \/ CallRequestSign
    \/ RequestSession
    \/ CommandNew
    \/ CommandGet

Spec == Init /\ [][Next]_vars

---------------------------------------------------------------------------
(* Claims about the session operations and the requests (under Spec) *)

\* The wallet config w is a valid binding for session id string id, stated
\* on the decoded values (not by a call of verifyWalletConfig).
BoundTo(id, w) ==
    /\ w.walletType = WalletV4
    /\ w.walletConfig.valid
    /\ w.address.valid
    /\ w.address.addr = w.walletConfig.key
    /\ w.walletSig.bytes =
          [key |-> w.walletConfig.key,
           msg |-> <<"coins0", id.bytes, w.address.addr, "bit1",
                     <<w.endpoint>>, <<w.appPublicKey.bytes>> >>]

Returned == pc = "done" /\ result.kind = "return"

\* C1: whenever getSessionState, waitForSessionState or awaitSessionReady
\* returns state ready, the relay record it came from was ready, not flagged
\* revoked, on the connector's network, and the returned wallet is that
\* record's wallet and a valid binding for the session id.
C1_ReadyOnlyIfVerified ==
    (Returned /\ op \in SessionOps /\ result.value.state = "ready") =>
        /\ rec.state = "ready"
        /\ ~rec.revoked
        /\ rec.testnet = (network = "testnet")
        /\ result.value.wallet = rec.wallet
        /\ BoundTo(req.sessionId, result.value.wallet)

\* awaitSessionReady returned a ready session.
C1_Witness ==
    /\ Returned
    /\ op = "awaitSessionReady"
    /\ result.value.state = "ready"
    /\ rec.state = "ready"

\* C2: once a ready, non-revoked, network-matching record has failed the
\* wallet-config check, the operation has ended with the integrity error
\* and made no further relay call.
C2_IntegrityFailsImmediately ==
    hist.integrity =>
        /\ pc = "done"
        /\ result.kind = "throw"
        /\ result.error = IntegrityError
        /\ ~hist.later

\* C3: getSessionState and waitForSessionState return revoked for every
\* initing or ready record whose testnet flag differs from the connector's
\* network: the answer to such a record is a returned revoked, and a
\* returned initing or ready never comes from such a record.
C3_NetworkMismatchRevoked ==
    /\ (Returned /\ op \in {"getSessionState", "waitForSessionState"}
          /\ rec.state \in {"initing", "ready"}
          /\ rec.testnet # (network = "testnet"))
         => result.value.state = "revoked"
    /\ (pc = "session" /\ op \in {"getSessionState", "waitForSessionState"})
         => \A ex \in SessionRecords :
              (ex.state \in {"initing", "ready"}
                 /\ ex.testnet # (network = "testnet"))
              => SessionOutcome(ex).kind = "return"

\* waitForSessionState returned revoked for a ready record of the other
\* network.
C3_Witness ==
    /\ Returned
    /\ op = "waitForSessionState"
    /\ rec.state = "ready"
    /\ ~rec.revoked
    /\ rec.testnet # (network = "testnet")
    /\ result.value.state = "revoked"

\* C4: requestTransaction and requestSign return success only if the record
\* that ended the polling was completed with the blob this call submitted;
\* a completed record with another blob gives rejected.
C4_SuccessOnlyForOwnBlob ==
    (Returned /\ op \in RequestOps) =>
        /\ result.value.type = "success"
             => (jrec.state = "completed" /\ jrec.job = boc)
        /\ (jrec.state = "completed" /\ jrec.job # boc)
             => result.value.type = "rejected"

\* A request ended as rejected on a completed record of a foreign blob.
C4_Witness ==
    /\ Returned
    /\ op = "requestTransaction"
    /\ jrec.state = "completed"
    /\ jrec.job # boc
    /\ result.value.type = "rejected"

\* The session state the request fetched, as it must be to go on.
FetchedReadyFor(r) ==
    /\ rec.state = "ready"
    /\ ~rec.revoked
    /\ rec.testnet = (network = "testnet")
    /\ BoundTo(r.sessionId, rec.wallet)
    /\ rec.wallet.appPublicKey = r.appPublicKey

\* C5: if the session fetched by requestTransaction or requestSign is not
\* ready, or its wallet's appPublicKey differs from request.appPublicKey,
\* the call returns invalid_session and never sends command_new or
\* command_get.
C5_InvalidSessionNoJob ==
    (op \in RequestOps /\ rec.state # "none" /\ ~FetchedReadyFor(req)) =>
        /\ pc = "done"
        /\ result = JobReturn("invalid_session", NoJobResult)
        /\ calls["command_new"] = 0
        /\ calls["command_get"] = 0

\* requestSign fetched a verified ready session whose appPublicKey string
\* differs from the request's and returned invalid_session.
C5_Witness ==
    /\ op = "requestSign"
    /\ pc = "done"
    /\ rec.state = "ready"
    /\ ~rec.revoked
    /\ rec.testnet = (network = "testnet")
    /\ BoundTo(req.sessionId, rec.wallet)
    /\ rec.wallet.appPublicKey # req.appPublicKey
    /\ result = JobReturn("invalid_session", NoJobResult)

\* The result of a completed sign job carries the wallet's signature over
\* the sign-response payload rebuilt from the request.
ResultVerifies ==
    /\ jrec.result.kind = "boc"
    /\ jrec.result.signature =
         [key |-> session.wallet.walletConfig.key,
          msg |-> <<IF req.text.isString /\ req.text.value # ""
                    THEN <<"op0", req.text.value>> ELSE <<>>,
                    IF req.payload.isString
                    THEN <<"boc", req.payload.value>> ELSE <<>> >>]

\* C6: when the relay reports the submitted sign job completed and its
\* result is unverifiable (no valid signature over the rebuilt payload, or
\* no well-formed 64-byte signature at all), requestSign returns rejected.
C6_UnverifiableIsRejected ==
    (pc = "done" /\ op = "requestSign" /\ jrec.state = "completed"
       /\ jrec.job = boc /\ ~ResultVerifies)
      => result = JobReturn("rejected", NoJobResult)

\* No poll of the awaitSessionReady call threw: every poll so far returned.
EveryPollReturned == op = "awaitSessionReady" /\ ~hist.failed

\* C9 (as stated): when every poll returns initing, awaitSessionReady
\* returns expired no later than its timeout plus one poll round trip after
\* the call.
C9_Original ==
    (EveryPollReturned /\ Returned /\ result.value.state = "expired")
      => now <= expires + MaxRTT

\* C9 (amended): when every poll returns initing, awaitSessionReady returns
\* expired before its timeout plus one poll round trip plus the delay(1000)
\* that follows the poll; no poll starts at or after the deadline.
C9_ExpiredWithinTimeoutRoundTripDelay ==
    /\ (EveryPollReturned /\ Returned /\ result.value.state = "expired")
         => now < expires + MaxRTT + DelayTicks
    /\ (EveryPollReturned /\ pc = "session") => now < expires
    /\ EveryPollReturned => now < expires + MaxRTT + DelayTicks

\* awaitSessionReady returned expired after polls that all returned initing,
\* later than the timeout plus one round trip.
C9_Witness ==
    /\ EveryPollReturned
    /\ Returned
    /\ result.value.state = "expired"
    /\ calls["session_wait"] > 0
    /\ now > expires + MaxRTT

\* C10: awaitSessionReady returns only ready, revoked or expired.
C10_AwaitReturnsTerminal ==
    (Returned /\ op = "awaitSessionReady")
      => result.value.state \in {"ready", "revoked", "expired"}

\* awaitSessionReady returned revoked after an earlier poll gave initing.
C10_Witness ==
    /\ Returned
    /\ op = "awaitSessionReady"
    /\ result.value.state = "revoked"
    /\ now >= DelayTicks

\* The failed attempts of the relay call in progress, over all layers of
\* backoff of the operation.
FailedAttempts == ofails * MaxFailureCount + fails

\* C12: a relay call that keeps failing is given up after the fixed maximum
\* of failed attempts, and no enclosing layer of the operation runs it
\* again: an attempt is never made after that many failures.
C12_AttemptsBounded ==
    /\ ofails = 0
    /\ FailedAttempts < MaxFailureCount

\* C13: a relay record of a shape that is neither a session record nor a
\* job record makes the operation end with an error at once; it is never
\* the record a returned state value was made from.
C13_MalformedFailsAtOnce ==
    (rec.state = "other" \/ jrec.state = "other")
      => (pc = "done" /\ result.kind = "throw")

\* Every relay call of the operation was answered, every answer was a
\* well-formed record and no wallet config failed its check: no relay call
\* and no handling of an answer threw, and a completed job's result holds a
\* cell of at least 64 bytes.
AnsweredWellFormed ==
    /\ ~hist.failed
    /\ ~hist.integrity
    /\ rec.state # "other"
    /\ jrec.state # "other"
    /\ jrec.result.kind \notin {"short", "notboc"}

RequestOutcomes == {"success", "rejected", "expired", "invalid_session"}

KnownJobStates == {"empty", "submitted", "expired", "rejected", "completed"}

JobStateTable(res, submitted) ==
    CASE res.state = "empty" -> "expired"
      [] res.state # "empty" /\ res.job # submitted -> "rejected"
      [] OTHER -> res.state

\* C15: _getJobState maps empty to expired; otherwise a blob other than the
\* submitted one to rejected, whatever the reported state; otherwise the
\* reported state unchanged, and a completed record's result is the result
\* the request returns.
C15_JobStateMapping ==
    /\ (pc = "command_get") =>
          \A res \in JobRecords(boc) :
             res.state \in KnownJobStates
               => getJobState(res, boc) = JobStateTable(res, boc)
    /\ (op \in RequestOps /\ Returned /\ jrec.state \in KnownJobStates) =>
          LET mapped == JobStateTable(jrec, boc)
          IN  /\ mapped # "submitted"
              /\ mapped \in {"expired", "rejected"}
                    => result = JobReturn(mapped, NoJobResult)
              /\ (mapped = "completed" /\ op = "requestTransaction")
                    => result = JobReturn("success", jrec.result)

\* A request ended as rejected on an expired record that carries another
\* blob than the submitted one.
C15_Witness ==
    /\ op = "requestTransaction"
    /\ Returned
    /\ jrec.state = "expired"
    /\ jrec.job # boc
    /\ result.value.type = "rejected"

Created == op = "createNewSession" /\ Returned

\* C16: the link createNewSession returns is 'ton://connect/' on a mainnet
\* connector and 'ton-test://connect/' on a testnet connector, then the
\* session id of the same result, then '?endpoint=' and the relay host.
C16_LinkFormat ==
    Created =>
        result.value.link =
            <<IF network = "testnet" THEN "ton-test://connect/"
              ELSE "ton://connect/",
              result.value.id, "?endpoint=", "connect.tonhubapi.com">>

\* A testnet connector created a session.
C16_Witness ==
    /\ Created
    /\ network = "testnet"
    /\ result.value.link[1] = "ton-test://connect/"

\* C17: every session createNewSession returns has idFromSeed(seed) = id,
\* the id it registered with session_new; requestTransaction / requestSign
\* ask the relay for the session idFromSeed(request.seed).
C17_IdFromSeed ==
    /\ Created =>
          /\ idFromSeed(result.value.seed) = result.value.id
          /\ sent.method = "session_new"
          /\ sent.id = result.value.id
    /\ (op \in RequestOps /\ sent.method = "session_get")
          => sent.id = idFromSeed(req.seed)

\* createNewSession returned a session after a failed attempt, and the id
\* is in the url-safe spelling while the seed is in the standard one.
C17_Witness ==
    /\ Created
    /\ hist.failed
    /\ result.value.id.form = "url"
    /\ result.value.seed.form = "std"

\* The outer envelope of a job blob, as its reader opens it: the BOC is
\* decoded, 64 bytes of signature and 32 bytes of public key are read from
\* the root cell, and the job is its reference.
OpenEnvelope(blob) ==
    LET cell == Base64Decode(blob)
    IN  [signature |-> cell.data[1], publicKey |-> cell.data[2],
         job |-> cell.refs[1]]

C19_ReadmeConnectorOnTestnet ==
    /\ (args.testnet /\ sent.method = "session_new") => sent.testnet
    /\ (args.testnet /\ Created)
          => result.value.link[1] = "ton-test://connect/"
    /\ (args.testnet /\ Returned /\ op \in SessionOps
           /\ rec.state = "initing" /\ rec.testnet)
          => result.value.state = "initing"
    /\ ~args.given => network = "mainnet"

\* C20: requestSign returns success only if the result's signature is the
\* session wallet's signature over the payload rebuilt from this request's
\* text and payload; a well-formed result whose signature is not that one,
\* such as the wallet's signature over another text or payload, gives
\* rejected.
C20_SuccessOnlyForOwnMessage ==
    /\ (op = "requestSign" /\ Returned /\ result.value.type = "success")
          => (jrec.state = "completed" /\ jrec.job = boc /\ ResultVerifies)
    /\ (op = "requestSign" /\ pc = "done" /\ jrec.state = "completed"
           /\ jrec.job = boc /\ jrec.result.kind = "boc" /\ ~ResultVerifies)
          => result = JobReturn("rejected", NoJobResult)

\* requestSign got the wallet's signature over the request's text with no
\* payload, for a request that has a payload, and returned rejected.
C20_Witness ==
    /\ op = "requestSign"
    /\ Returned
    /\ req.payload.isString
    /\ req.text = Str("hello")
    /\ jrec.state = "completed"
    /\ jrec.job = boc
    /\ jrec.result.kind = "boc"
    /\ jrec.result.signature =
          SignatureBy(session.wallet.walletConfig.key,
                      SignResponsePayload(comment("hello"), EmptyCell))
    /\ result.value.type = "rejected"

\* The comment cell and the payload cell of the sign job inside a blob.
JobCells(blob) == OpenEnvelope(blob).job[4]

\* C21: when a sign job comes back completed with a signature of the
\* session's wallet key over exactly the comment cell and the payload cell
\* of the submitted job, requestSign returns success, whether the text is
\* present, empty or absent and whether the payload is present or absent.
C21_SignedJobCellsAccepted ==
    (/\ op = "requestSign"
     /\ Returned
     /\ jrec.state = "completed"
     /\ jrec.job = boc
     /\ jrec.result.kind = "boc"
     /\ jrec.result.signature =
          SignatureBy(session.wallet.walletConfig.key, JobCells(boc)))
        => result.value.type = "success"

\* C22: within one requestTransaction or requestSign call the relay is
\* called in the order session_get, command_new, command_get: a session_get
\* is sent only while no command has been sent, a command_new only after a
\* session_get whose record passed the session check and before any
\* command_get, and a command_get only after a command_new that returned.
C22_RelayCallOrder ==
    op \in RequestOps =>
        /\ sent.method \in {"none", "session_get", "command_new", "command_get"}
        /\ sent.method = "session_get" =>
              calls["command_new"] = 0 /\ calls["command_get"] = 0
        /\ sent.method = "command_new" =>
              /\ calls["session_get"] > 0
              /\ FetchedReadyFor(req)
              /\ calls["command_get"] = 0
        /\ sent.method = "command_get" =>
              calls["session_get"] > 0 /\ calls["command_new"] > 0
        /\ (pc \in {"command_get", "job_delay"} \/ calls["command_get"] > 0) =>
              /\ calls["command_new"] > 0
              /\ sent.method = "command_new" => sent.answer # "error"

C22_Witness ==
    /\ op \in RequestOps
    /\ Returned
    /\ calls["session_get"] = 2
    /\ calls["command_new"] = 2
    /\ calls["command_get"] = 2

\* C23: requestTransaction and requestSign go on to poll for the job only
\* after the relay answered command_new with ok: true; an answer that is
\* not ok does not lead to polling.
C23_PollingOnlyAfterOk ==
    (/\ op \in RequestOps
     /\ pc \in {"command_get", "job_delay"}
     /\ sent.method = "command_new")
        => sent.answer = "ok"

\* C24: a request whose command_get is answered with the record of another
\* job filed under the same app public key is not ended as rejected by that
\* record, and does not return success with that job's result.
C24_OtherJobDoesNotEndCall ==
    (/\ op \in RequestOps
     /\ Returned
     /\ jrec.state # "none"
     /\ jrec.job = ForeignBoc)
        => result.value.type \notin {"rejected", "success"}

Revoked == Return([state |-> "revoked", wallet |-> NoWallet])

\* C25: a relay call answered with a ready record that is flagged revoked
\* or is of the other network comes out as the state revoked and raises
\* nothing, whatever its wallet config is: the session methods return
\* revoked, the request methods return invalid_session.
C25_FlaggedReadyIsRevoked ==
    hist.flagged # NoResult =>
        /\ hist.flagged = Revoked
        /\ pc = "done"
        /\ op \in SessionOps => result = Revoked
        /\ op \in RequestOps => result = JobReturn("invalid_session", NoJobResult)

C25_Witness ==
    /\ hist.flagged # NoResult
    /\ rec.state = "ready"
    /\ rec.revoked
    /\ rec.testnet = (network = "testnet")
    /\ verifyWalletConfig(req.sessionId, rec.wallet) = "throw"
    /\ op = "getSessionState"
    /\ Returned

\* C26: in awaitSessionReady, the first poll that yields ready or revoked
\* is the last relay call of the call and its state is what the call
\* returns; expired is returned only if no poll yielded ready or revoked.
C26_FirstTerminalPollReturned ==
    /\ [](op = "awaitSessionReady" =>
            /\ hist.terminal =>
                  /\ Returned
                  /\ sent.method = "session_wait"
                  /\ result.value.state \in {"ready", "revoked"}
                  /\ result = ensureSessionStateCorrect(req.sessionId, rec)
            /\ (Returned /\ result.value.state = "expired") => ~hist.terminal)
    /\ [][(op = "awaitSessionReady" /\ hist.terminal) => calls' = calls]_vars

C26_Witness ==
    /\ op = "awaitSessionReady"
    /\ hist.terminal
    /\ calls["session_wait"] = 2
    /\ result.value.state = "ready"

\* C27: in awaitSessionReady, a poll that returns initing is followed by
\* the full delay before the loop goes on to the next session_wait, even
\* when the relay answered at once, and time never runs backwards.
C27_DelayAfterInitingPoll ==
    [][/\ now' >= now
       /\ (/\ op = "awaitSessionReady"
           /\ pc = "session"
           /\ pc' = "loop"
           /\ ofails' = ofails)
             => /\ calls' # calls \/ calls["session_wait"] = CountCap
                /\ sent'.method = "session_wait"
                /\ now' >= now + DelayTicks]_vars

C27_Witness ==
    /\ op = "awaitSessionReady"
    /\ ~hist.failed
    /\ calls["session_wait"] = 2
    /\ pc = "done"
    /\ now = DelayTicks

\* C28: getSessionState and waitForSessionState end with the same outcome
\* for the same relay answer, session id and connector network: the state
\* ensureSessionStateCorrect makes of the record, or the error it raises.
\* They differ in the relay call: session_get with the id, session_wait
\* with the id and lastUpdated.
C28_GetAndWaitNormalizeAlike ==
    op \in {"getSessionState", "waitForSessionState"} =>
        /\ sent.method # "none" =>
              /\ sent.method = IF op = "getSessionState" THEN "session_get"
                               ELSE "session_wait"
              /\ sent.id = req.sessionId
              /\ sent.lastUpdated = req.lastUpdated
        /\ pc = "done" =>
              result = IF rec = TransportFailure THEN Throw("transport")
                       ELSE ensureSessionStateCorrect(req.sessionId, rec)

C28_Witness ==
    /\ op = "waitForSessionState"
    /\ pc = "done"
    /\ sent.lastUpdated = 1
    /\ rec.state = "ready"
    /\ rec.testnet # (network = "testnet")
    /\ result = Revoked

\* C29: createNewSession returns {id, seed, link} only after a session_new
\* call that carried the returned id as key, the connector's network as
\* testnet flag and the caller's name and url was answered ok: true; an
\* answer that is not ok is retried or raised as an error, never returned.
C29_CreatedOnlyAfterOk ==
    op = "createNewSession" =>
        /\ Returned =>
              /\ sent.method = "session_new"
              /\ sent.answer = "ok"
              /\ sent.id = result.value.id
              /\ sent.testnet = (network = "testnet")
              /\ sent.name = req.name
              /\ sent.url = req.url
        /\ (sent.method = "session_new" /\ sent.answer # "ok") =>
              \/ pc = "session_new" /\ result = NoResult
              \/ pc = "done" /\ result.kind = "throw"

C29_Witness ==
    /\ Created
    /\ calls["session_new"] = 2
    /\ network = "testnet"
    /\ sent.name = "Other app name"

\* C30: in every blob requestTransaction or requestSign submits, the public
\* key of the envelope is the one derived from request.seed, which is the
\* session id, the signature is that key's signature over the job, and the
\* app public key inside the job is request.appPublicKey and the
\* appPublicKey of the verified session wallet.
C30_SubmittedEnvelopeKeys ==
    (op \in RequestOps /\ sent.method = "command_new") =>
        LET opened == OpenEnvelope(sent.job)
            keypair == keyPairFromSeed(Base64Decode(req.seed))
        IN  /\ opened.publicKey = keypair.publicKey
            /\ opened.publicKey = Base64Decode(idFromSeed(req.seed))
            /\ safeSignVerify(opened.job, opened.signature, keypair.publicKey)
            /\ opened.job[1] = Base64Decode(req.appPublicKey)
            /\ opened.job[1] = Base64Decode(session.wallet.appPublicKey)
            /\ verifyWalletConfig(idFromSeed(req.seed), session.wallet) = "true"

C30_Witness ==
    /\ op = "requestSign"
    /\ sent.method = "command_new"
    /\ sent.answer = "ok"
    /\ pc = "command_get"
    /\ OpenEnvelope(sent.job).publicKey = Base64Decode(req.sessionId)

\* C32: in awaitSessionReady the deadline is the one taken at call time and
\* a session_wait is started only before it: whenever the call is about to
\* send session_wait, the clock is before the deadline.
C32_NoPollAfterDeadline ==
    (op = "awaitSessionReady" /\ pc = "session") =>
        /\ expires <= req.timeout
        /\ now < expires

\* C33: a relay record in state not_found, or in any state other than
\* initing and ready, comes out as revoked: the session methods never
\* return not_found, awaitSessionReady returns revoked on the poll that is
\* answered so, without waiting, and the request methods return
\* invalid_session without submitting a job.
C33_UnknownSessionIsRevoked ==
    /\ (op \in SessionOps /\ Returned) =>
          result.value.state \in {"initing", "ready", "revoked", "expired"}
    /\ rec.state \in {"not_found", "other"} =>
          /\ pc = "done"
          /\ op \in SessionOps => result = Revoked
          /\ op \in RequestOps =>
                /\ result = JobReturn("invalid_session", NoJobResult)
                /\ calls["command_new"] = 0
          /\ (op = "awaitSessionReady" /\ calls["session_wait"] = 1) =>
                now <= MaxRTT

\* awaitSessionReady was answered not_found on its first poll and returned.
C33_Witness ==
    /\ op = "awaitSessionReady"
    /\ Returned
    /\ rec.state = "not_found"
    /\ calls["session_wait"] = 1
    /\ req.timeout = MaxTimeout
    /\ result = Revoked

\* C34: an initing record of the connector's network comes out as initing
\* whether or not it is flagged revoked: getSessionState and
\* waitForSessionState return initing for it, and an awaitSessionReady whose
\* last answered poll was such a record has not returned ready or revoked;
\* if it has returned, the deadline has passed and the result is expired.
C34_InitingIgnoresRevokedFlag ==
    (/\ op \in SessionOps
     /\ rec.state = "initing"
     /\ rec.testnet = (network = "testnet"))
        => /\ op \in {"getSessionState", "waitForSessionState"} =>
                 Returned /\ result.value.state = "initing"
           /\ op = "awaitSessionReady" =>
                 /\ ~hist.terminal
                 /\ pc \in {"loop", "session", "done"}
                 /\ Returned =>
                       /\ result.value.state = "expired"
                       /\ now >= expires

\* awaitSessionReady was answered an initing record flagged revoked by its
\* polls and returned expired.
C34_Witness ==
    /\ op = "awaitSessionReady"
    /\ Returned
    /\ ~hist.failed
    /\ rec.state = "initing"
    /\ rec.revoked
    /\ calls["session_wait"] = 2
    /\ result.value.state = "expired"

\* C35: every session_wait of a waitForSessionState or awaitSessionReady
\* call carries the session id and the lastUpdated value the caller passed,
\* also after earlier polls of the call returned initing records.
C35_LastUpdatedPassedThrough ==
    (op \in {"waitForSessionState", "awaitSessionReady"}
        /\ sent.method # "none")
        => /\ sent.method = "session_wait"
           /\ sent.id = req.sessionId
           /\ sent.lastUpdated = req.lastUpdated
           /\ sent.lastUpdated # RecordUpdated(rec)

\* awaitSessionReady, called with a lastUpdated, has sent its second
\* session_wait after the first was answered initing.
C35_Witness ==
    /\ op = "awaitSessionReady"
    /\ ~hist.failed
    /\ calls["session_wait"] = 2
    /\ rec.state = "initing"
    /\ req.lastUpdated = 1
    /\ sent.lastUpdated = 1

\* The bits of the root cell of a job: the app public key, the expiry as
\* an unsigned number of the field's width, and the marker as storeCoins
\* writes it (four bits of byte length, then the bytes of the amount).
KeyBits(k) == [i \in 1..NumKeys |-> IF i = k THEN 1 ELSE 0]

UintBits(v, w) == [i \in 1..w |-> (v \div (2 ^ (w - i))) % 2]

CoinsBits(marker) ==
    IF marker = "coins0" THEN <<0, 0, 0, 0>>
    ELSE <<0, 0, 0, 1, 0, 0, 0, 0, 0, 0, 0, 1>>

RootBits(job) ==
    KeyBits(job[1]) \o UintBits(job[2], Uint32Bits) \o CoinsBits(job[3])

\* The jobs the other request method builds for the wallets of the relay
\* and the texts and payloads of the model, at the time of this call.
OtherJobs(operation) ==
    {IF operation = "requestTransaction"
     THEN TransactionJob([session EXCEPT !.wallet = w], r, now)
     ELSE SignJob([session EXCEPT !.wallet = w], r, now) :
        w \in HonestWallets,
        r \in {[req EXCEPT !.to = Destination, !.text = t, !.payload = d] :
                 t \in Texts, d \in {Null, Str("payload-boc")}}}

\* C36: the job a request method submits differs from every job the other
\* request method builds: the root cell of a transaction job ends with the
\* marker 0 and that of a sign job with the marker 1, so the bits of the
\* two root cells differ whatever the keys, expiries and contents are.
C36_JobKindsDisjoint ==
    (op \in RequestOps /\ sent.method = "command_new") =>
        LET job == OpenEnvelope(sent.job).job
            bits == RootBits(job)
            other == IF op = "requestSign" THEN "requestTransaction"
                     ELSE "requestSign"
        IN  /\ job[3] = IF op = "requestSign" THEN "coins1" ELSE "coins0"
            /\ bits[Len(bits)] = IF op = "requestSign" THEN 1 ELSE 0
            /\ \A j \in OtherJobs(other) :
                  /\ j # job
                  /\ RootBits(j) # bits
                  /\ Base64Encode(PackageCell(OpenEnvelope(sent.job).signature,
                        OpenEnvelope(sent.job).publicKey, j)) # sent.job

\* requestSign submitted a job while requestTransaction builds one with the
\* same app public key and the same expiry.
C36_Witness ==
    /\ op = "requestSign"
    /\ sent.method = "command_new"
    /\ sent.answer = "ok"
    /\ \E j \in OtherJobs("requestTransaction") :
          /\ j[1] = OpenEnvelope(sent.job).job[1]
          /\ j[2] = OpenEnvelope(sent.job).job[2]

---------------------------------------------------------------------------
(* Job polling under fair scheduling *)

\* The polling loop of _awaitJobState keeps running: a command_get that can
\* be made is made (the transport ends every call, by an answer or by its
\* timeout), and the delay between two polls elapses.
SpecPolling ==
    Init /\ [][Next]_vars /\ WF_vars(CommandGet) /\ WF_vars(JobDelay)

\* The relay has settled on a record that is completed, rejected, expired
\* or empty.
RelayTerminal ==
    relay.state \in {"completed", "rejected", "expired", "empty"}

\* C11: job polling ends when the relay reports a terminal state: once the
\* relay answers completed, rejected, expired or empty from some point on,
\* requestTransaction / requestSign end. While it answers submitted with the
\* submitted blob, the poll is followed by the delay and the next poll, the
\* call does not end and no failure is counted.
C11_TerminalEndsPolling ==
    /\ (RelayTerminal /\ pc \in {"command_get", "job_delay"}) ~> Returned
    /\ [][(pc = "command_get" /\ relay.state = "submitted" /\ relay.job = boc)
           => (pc' = "job_delay" /\ fails' = fails /\ result' = result
                 /\ hist'.failed = hist.failed)]_vars
    /\ [][(pc = "job_delay") => (pc' = "command_get" /\ result' = result)]_vars

\* A request polled, found the job submitted, waited, polled again and
\* ended on the expired record the relay had settled on.
C11_Witness ==
    /\ op = "requestTransaction"
    /\ Returned
    /\ relay.state = "expired"
    /\ relay.job = boc
    /\ calls["command_get"] >= 2
    /\ result.value.type = "expired"

---------------------------------------------------------------------------
(* SpecVerify: verifyWalletConfig as a pure function of its arguments *)

InitVerify ==
    /\ vin \in [session : SessionIds, config : WalletConfigs]
    /\ vout = "none"
    /\ vbase = NoArgs
    /\ args = CHOOSE a \in ConstructorArgs : ~a.given
    /\ network = "mainnet"
    /\ op = "none"
    /\ pc = "idle"
    /\ req = NoRequest
    /\ fails = 0
    /\ ofails = 0
    /\ rec = NoRecord
    /\ session = [state |-> "none", wallet |-> NoWallet]
    /\ boc = NoBoc
    /\ jrec = NoJob
    /\ result = NoResult
    /\ sent = NoMessage
    /\ relay = NoJob
    /\ calls = [m \in Methods |-> 0]
    /\ hist = NoHistory
    /\ now = 0
    /\ expires = 0

\* A call of TonhubConnector.verifyWalletConfig(session, config).
VerifyCall ==
    /\ vout = "none"
    /\ vout' = verifyWalletConfig(vin.session, vin.config)
    /\ UNCHANGED <<vin, vbase, callVars>>

\* An accepted config is presented again with one of walletSig, address,
\* endpoint, appPublicKey replaced by another string.
ChangeField ==
    /\ vout = "true"
    /\ vbase = NoArgs
    /\ \E f \in ConfigFields :
         \E v \in (CASE f = "address" -> AddressStrings
                     [] f = "endpoint" -> Endpoints
                     [] f = "walletSig" -> SigStrings
                     [] f = "appPublicKey" -> AppKeyStrings) :
            /\ v # vin.config[f]
            /\ vin' = [vin EXCEPT !.config[f] = v]
            /\ vbase' = [changed |-> TRUE, field |-> f, args |-> vin]
            /\ vout' = verifyWalletConfig(vin.session, vin'.config)
    /\ UNCHANGED callVars

\* An accepted config is presented again for another session id string.
ChangeSession ==
    /\ vout = "true"
    /\ vbase = NoArgs
    /\ \E s \in SessionIds :
            /\ s # vin.session
            /\ vin' = [vin EXCEPT !.session = s]
            /\ vbase' = [changed |-> TRUE, field |-> "sessionId", args |-> vin]
            /\ vout' = verifyWalletConfig(s, vin.config)
    /\ UNCHANGED callVars

NextVerify == VerifyCall \/ ChangeField \/ ChangeSession

SpecVerify == InitVerify /\ [][NextVerify]_vars

---------------------------------------------------------------------------
(* Claims about verifyWalletConfig *)

\* What the wallet-binding check is meant to accept, stated on the decoded
\* values: a known wallet type, a decodable wallet config, a claimed address
\* that parses to the address of that wallet, and a walletSig that is the
\* wallet key's signature over the proof for these arguments.
ValidBinding(a) ==
    /\ a.config.walletType = WalletV4
    /\ a.config.walletConfig.valid
    /\ a.config.address.valid
    /\ a.config.address.addr = a.config.walletConfig.key
    /\ a.config.walletSig.bytes =
          [key |-> a.config.walletConfig.key,
           msg |-> <<"coins0", a.session.bytes, a.config.address.addr, "bit1",
                     <<a.config.endpoint>>, <<a.config.appPublicKey.bytes>> >>]

\* The values the proof and the signature check read from the arguments.
DecodedArgs(a) ==
    <<a.session.bytes, a.config.address.valid, a.config.address.addr,
      a.config.endpoint, a.config.appPublicKey.bytes, a.config.walletSig.bytes>>

\* C7 (as stated): verifyWalletConfig returns true iff the binding is valid,
\* and after any one of walletSig, address, endpoint, appPublicKey or
\* sessionId of an accepted config is changed the result is false.
C7_Original ==
    /\ (vout # "none") => ((vout = "true") <=> ValidBinding(vin))
    /\ vbase.changed => vout # "true"

\* C7 (amended): verifyWalletConfig returns true iff the binding is valid,
\* and after a change of one of walletSig, address, endpoint, appPublicKey or
\* sessionId that changes the decoded value, the call no longer returns true.
\* A change that only re-encodes the same bytes or address leaves it true.
C7_TrueIffValidBinding ==
    /\ (vout # "none") => ((vout = "true") <=> ValidBinding(vin))
    /\ (vbase.changed /\ DecodedArgs(vbase.args) # DecodedArgs(vin))
          => vout # "true"
    /\ (vbase.changed /\ DecodedArgs(vbase.args) = DecodedArgs(vin))
          => vout = "true"

\* An accepted config was changed in the decoded value of one field and
\* verified again.
C7_Witness ==
    /\ vbase.changed
    /\ vbase.field = "appPublicKey"
    /\ DecodedArgs(vbase.args) # DecodedArgs(vin)
    /\ vout = "false"

\* C8: for every input that is no valid binding, verifyWalletConfig returns
\* false and does not throw.
C8_FalseNeverThrows ==
    (vout # "none" /\ ~ValidBinding(vin)) => vout = "false"

---------------------------------------------------------------------------
(* SpecExpiry: the expiry field of a job as a function of the clock and    *)
(* the request's timeout                                                   *)

\* Every variable of a connector call, at rest.
NoCall ==
    /\ args = CHOOSE a \in ConstructorArgs : ~a.given
    /\ network = "mainnet"
    /\ op = "none"
    /\ pc = "idle"
    /\ req = NoRequest
    /\ fails = 0
    /\ ofails = 0
    /\ rec = NoRecord
    /\ session = [state |-> "none", wallet |-> NoWallet]
    /\ boc = NoBoc
    /\ jrec = NoJob
    /\ result = NoResult
    /\ sent = NoMessage
    /\ relay = NoJob
    /\ calls = [m \in Methods |-> 0]
    /\ hist = NoHistory
    /\ now = 0
    /\ expires = 0

InitExpiry ==
    /\ vin \in [time : 0..MaxClock, timeout : (0 - MaxClock)..MaxClock]
    /\ vout = NoValue
    /\ vbase = NoArgs
    /\ NoCall

\* requestTransaction / requestSign: expires is computed and written into
\* the job.
WriteExpiry ==
    /\ vout = NoValue
    /\ vout' = storeUint(JobExpiry(vin.time, vin.timeout), Uint32Bits)
    /\ UNCHANGED <<vin, vbase, callVars>>

NextExpiry == WriteExpiry

SpecExpiry == InitExpiry /\ [][NextExpiry]_vars

---------------------------------------------------------------------------
(* SpecLocalVerify: TonhubLocalConnector.verifyWalletConfig as a function  *)
(* of the config                                                           *)

\* The cell the wallet signs to bind a subkey: marker, subkey public key,
\* subkey time, wallet address, a reference holding the domain.
LocalSubkeyProof(subkeyBytes, subkeyTime, address, domain) ==
    <<"coins1", subkeyBytes, subkeyTime, address, <<domain>> >>

\* The cell the subkey signs: marker, wallet address, config time, a
\* reference holding the domain.
LocalWalletProof(address, time, domain) ==
    <<"coins1", address, time, <<domain>> >>

\* TonhubLocalConnector.verifyWalletConfig(config): "true", "false", or
\* "throw" when an exception leaves the function.
localVerifyWalletConfig(config) ==
    LET parsed == ParseFriendly(config.address)
        extracted == extractPublicKeyAndAddress(config)
        subkeyTime == storeUint(config.subkey.time, Uint32Bits)
        time == storeUint(config.time, Uint32Bits)
    IN  IF ~parsed.ok THEN "throw"
        ELSE IF extracted.kind = "throw" THEN "throw"
        ELSE IF extracted.kind = "null" THEN "false"
        ELSE IF extracted.address # parsed.address THEN "false"
        ELSE IF subkeyTime.kind = "throw" THEN "throw"
        ELSE IF ~safeSignVerify(
                    LocalSubkeyProof(Base64Decode(config.subkey.publicKey),
                                     subkeyTime.value, extracted.address,
                                     config.subkey.domain),
                    Base64Decode(config.subkey.signature),
                    extracted.publicKey)
        THEN "false"
        ELSE IF time.kind = "throw" THEN "throw"
        ELSE IF safeSignVerify(
                    LocalWalletProof(extracted.address, time.value,
                                     config.subkey.domain),
                    Base64Decode(config.signature),
                    Base64Decode(config.subkey.publicKey))
             THEN "true" ELSE "false"

\* Times of a config: two that fit the field and one that does not.
LocalTimes == {0, 1, Uint32Limit}

Domains == {"app.example", "evil.example"}

\* A config as the wallet issues it: wallet key w, subkey sk.
HonestLocalConfig(w, sk, domain, time, subkeyTime) ==
    [address |-> [addr |-> contractAddress(w), bounceable |-> TRUE,
                  valid |-> TRUE],
     walletType |-> WalletV4,
     walletConfig |-> [key |-> w, valid |-> TRUE],
     time |-> time,
     signature |-> Base64Encode(SignatureBy(sk,
                      LocalWalletProof(contractAddress(w), time, domain))),
     subkey |-> [domain |-> domain,
                 publicKey |-> Base64Encode(sk),
                 time |-> subkeyTime,
                 signature |-> Base64Encode(SignatureBy(w,
                      LocalSubkeyProof(sk, subkeyTime, contractAddress(w),
                                       domain)))]]

HonestLocalConfigs ==
    {HonestLocalConfig(w, sk, d, t, st) :
        w \in Keys, sk \in Keys, d \in Domains, t \in {0, 1}, st \in {0, 1}}

\* The strings a field of a config may be replaced by.
LocalFieldValues(field) ==
    CASE field = "address" -> AddressStrings
      [] field = "walletType" -> WalletTypes
      [] field = "walletConfig" -> WalletConfigStrings
      [] field = "time" -> LocalTimes
      [] field = "signature" ->
            {[bytes |-> c.signature.bytes, form |-> f] :
                c \in HonestLocalConfigs, f \in Forms}
              \cup {Base64Encode(JunkSignature)}
      [] field = "subkey.domain" -> Domains
      [] field = "subkey.publicKey" -> AppKeyStrings
      [] field = "subkey.time" -> LocalTimes
      [] field = "subkey.signature" ->
            {[bytes |-> c.subkey.signature.bytes, form |-> f] :
                c \in HonestLocalConfigs, f \in Forms}
              \cup {Base64Encode(JunkSignature)}

LocalFields ==
    {"address", "walletType", "walletConfig", "time", "signature",
     "subkey.domain", "subkey.publicKey", "subkey.time", "subkey.signature"}

\* config with one field replaced.
WithLocalField(config, field, v) ==
    CASE field = "address" -> [config EXCEPT !.address = v]
      [] field = "walletType" -> [config EXCEPT !.walletType = v]
      [] field = "walletConfig" -> [config EXCEPT !.walletConfig = v]
      [] field = "time" -> [config EXCEPT !.time = v]
      [] field = "signature" -> [config EXCEPT !.signature = v]
      [] field = "subkey.domain" -> [config EXCEPT !.subkey.domain = v]
      [] field = "subkey.publicKey" -> [config EXCEPT !.subkey.publicKey = v]
      [] field = "subkey.time" -> [config EXCEPT !.subkey.time = v]
      [] field = "subkey.signature" -> [config EXCEPT !.subkey.signature = v]

InitLocalVerify ==
    /\ vin \in HonestLocalConfigs
    /\ vout = "none"
    /\ vbase = NoArgs
    /\ NoCall

\* A call of TonhubLocalConnector.verifyWalletConfig(config).
LocalVerifyCall ==
    /\ vout = "none"
    /\ vout' = localVerifyWalletConfig(vin)
    /\ UNCHANGED <<vin, vbase, callVars>>

\* The config is presented again with one field replaced by another value.
LocalChangeField ==
    /\ vout # "none"
    /\ vbase = NoArgs
    /\ \E f \in LocalFields :
         \E v \in LocalFieldValues(f) :
            /\ WithLocalField(vin, f, v) # vin
            /\ vin' = WithLocalField(vin, f, v)
            /\ vbase' = [changed |-> TRUE, field |-> f, args |-> vin]
            /\ vout' = localVerifyWalletConfig(vin')
    /\ UNCHANGED callVars

NextLocalVerify == LocalVerifyCall \/ LocalChangeField

SpecLocalVerify == InitLocalVerify /\ [][NextLocalVerify]_vars

\* The three conditions on a config, in terms of its decoded fields.
LocalAddressMatches(c) ==
    /\ c.walletType = WalletV4
    /\ c.walletConfig.valid
    /\ c.address.valid
    /\ c.address.addr = c.walletConfig.key

LocalSubkeyBound(c) ==
    c.subkey.signature.bytes =
        [key |-> c.walletConfig.key,
         msg |-> <<"coins1", c.subkey.publicKey.bytes, c.subkey.time,
                   c.address.addr, <<c.subkey.domain>> >>]

LocalConfigSigned(c) ==
    c.signature.bytes =
        [key |-> c.subkey.publicKey.bytes,
         msg |-> <<"coins1", c.address.addr, c.time, <<c.subkey.domain>> >>]

\* C37: TonhubLocalConnector.verifyWalletConfig returns true only if the
\* decoded address equals config.address, the subkey signature verifies
\* under the wallet's key over the subkey binding, and the config signature
\* verifies under the subkey over (address, time, domain); if any of the
\* three fails, the result is false.
C37_FalseWhenAnyFails ==
    vout # "none" =>
        /\ vout = "true" =>
              /\ LocalAddressMatches(vin)
              /\ LocalSubkeyBound(vin)
              /\ LocalConfigSigned(vin)
        /\ ~(/\ LocalAddressMatches(vin)
             /\ LocalSubkeyBound(vin)
             /\ LocalConfigSigned(vin)) => vout = "false"

---------------------------------------------------------------------------
(* SpecLocal: TonhubLocalConnector against the provider a dApp browser     *)
(* injects as window['ton-x']                                              *)

\* The wallet part of a provider's config.
ProviderWallets ==
    {HonestLocalConfig(w, w, d, 0, 0) :
        w \in {CHOOSE k \in Keys : TRUE}, d \in Domains}

NoProviderConfig ==
    [version |-> 0, network |-> "",
     wallet |-> CHOOSE w \in ProviderWallets : TRUE]

\* tx.config as a provider may hold it: version 1 or another, a network the
\* codec knows or another.
ProviderConfigs ==
    [version : {1, 2}, network : {"mainnet", "testnet", "sandbox"},
     wallet : ProviderWallets]

\* configCodec.is(config)
configCodecIs(config) ==
    /\ config.version = 1
    /\ config.network \in {"testnet", "mainnet"}

\* The global scope: no window, a window without 'ton-x', or a provider
\* whose __IS_TON_X is true, some other truthy value, or absent.
Providers ==
    {[window |-> FALSE, tonx |-> FALSE, isTonX |-> "absent",
      config |-> NoProviderConfig],
     [window |-> TRUE, tonx |-> FALSE, isTonX |-> "absent",
      config |-> NoProviderConfig]}
      \cup [window : {TRUE}, tonx : {TRUE},
            isTonX : {"true", "truthy", "absent"},
            config : ProviderConfigs \cup {NoProviderConfig}]

\* TonhubLocalConnector.isAvailable()
isAvailable(provider) ==
    /\ provider.window
    /\ provider.tonx
    /\ provider.isTonX = "true"
    /\ configCodecIs(provider.config)

NoConnector == [kind |-> "none", error |-> "", network |-> "",
                config |-> NoProviderConfig]

ConstructorThrows(e) == [kind |-> "throw", error |-> e, network |-> "",
                         config |-> NoProviderConfig]

\* new TonhubLocalConnector(network) that accepts a config of any network.
localConstructorAnyNetwork(provider, net) ==
    IF ~provider.window THEN ConstructorThrows("Not running in browser")
    ELSE IF ~provider.tonx THEN ConstructorThrows("Not running in dApp browser")
    ELSE IF provider.isTonX # "true"
    THEN ConstructorThrows("Not running in dApp browser")
    ELSE IF ~configCodecIs(provider.config)
    THEN ConstructorThrows("Not running in dApp browser")
    ELSE [kind |-> "connector", error |-> "", network |-> net,
          config |-> [version |-> provider.config.version,
                      network |-> provider.config.network,
                      wallet |-> provider.config.wallet]]

\* new TonhubLocalConnector(network): the connector, with its own frozen
\* copy of the provider's config, or the exception.
localConstructor(provider, net) ==
    IF ~provider.window THEN ConstructorThrows("Not running in browser")
    ELSE IF ~provider.tonx THEN ConstructorThrows("Not running in dApp browser")
    ELSE IF provider.isTonX # "true"
    THEN ConstructorThrows("Not running in dApp browser")
    ELSE IF ~configCodecIs(provider.config)
    THEN ConstructorThrows("Not running in dApp browser")
    ELSE IF provider.config.network # net
    THEN ConstructorThrows("Invalid network")
    ELSE [kind |-> "connector", error |-> "", network |-> net,
          config |-> [version |-> provider.config.version,
                      network |-> provider.config.network,
                      wallet |-> provider.config.wallet]]

NoLocalCalls ==
    [available |-> "none", changed |-> FALSE, requested |-> "none"]

InitLocal ==
    /\ vin \in [provider : Providers, network : {"mainnet", "testnet"}]
    /\ vout = NoLocalCalls
    /\ vbase = NoConnector
    /\ NoCall

\* TonhubLocalConnector.isAvailable() is called.
LocalIsAvailable ==
    /\ vout.available = "none"
    /\ vout' = [vout EXCEPT !.available =
                   IF isAvailable(vin.provider) THEN "true" ELSE "false"]
    /\ UNCHANGED <<vin, vbase, callVars>>

\* new TonhubLocalConnector(network) is called.
LocalConstruct ==
    /\ vbase = NoConnector
    /\ vbase' = localConstructor(vin.provider, vin.network)
    /\ UNCHANGED <<vin, vout, callVars>>

\* The page or the browser replaces the provider or its config after the
\* connector was constructed.
ProviderChanges ==
    /\ vbase.kind = "connector"
    /\ vout.available # "none"
    /\ ~vout.changed
    /\ \E p \in Providers :
         /\ p # vin.provider
         /\ vin' = [vin EXCEPT !.provider = p]
    /\ vout' = [vout EXCEPT !.changed = TRUE]
    /\ UNCHANGED <<vbase, callVars>>

\* requestTransaction / requestSign of the connector: the provider is
\* called with the connector's network.
LocalRequest ==
    /\ vbase.kind = "connector"
    /\ vout.requested = "none"
    /\ vout' = [vout EXCEPT !.requested = vbase.network]
    /\ UNCHANGED <<vin, vbase, callVars>>

NextLocal ==
    LocalIsAvailable \/ LocalConstruct \/ ProviderChanges \/ LocalRequest

SpecLocal == InitLocal /\ [][NextLocal]_vars

\* The provider exists, is marked as ton-x and holds a config of the
\* versioned shape.
ProviderUsable(p) ==
    /\ p.window
    /\ p.tonx
    /\ p.isTonX = "true"
    /\ p.config.version = 1
    /\ p.config.network \in {"mainnet", "testnet"}

\* C38: constructing TonhubLocalConnector(network) succeeds exactly when
\* the provider is usable and its config is of the requested network, and
\* throws otherwise; isAvailable() is true exactly when the provider is
\* usable; once constructed, the connector's network and config stay what
\* they were, whatever happens to the provider.
C38_ConstructionAndAvailability ==
    /\ []((~vout.changed /\ vbase # NoConnector) =>
            /\ vbase.kind = "connector" <=>
                  (/\ ProviderUsable(vin.provider)
                   /\ vin.provider.config.network = vin.network)
            /\ vbase.kind \in {"connector", "throw"}
            /\ vbase.kind = "connector" =>
                  /\ vbase.network = vin.network
                  /\ vbase.config = vin.provider.config)
    /\ []((~vout.changed /\ vout.available # "none") =>
            (vout.available = "true" <=> ProviderUsable(vin.provider)))
    /\ [](vout.requested # "none" => vout.requested = vbase.network)
    /\ [][vbase.kind = "connector" => vbase' = vbase]_vars

\* isAvailable() was true and the construction failed on the network.
C38_Witness ==
    /\ vout.available = "true"
    /\ vbase.kind = "throw"
    /\ vbase.error = "Invalid network"

---------------------------------------------------------------------------
(* SpecTransport: TonhubHttpTransport.call, from the arguments of a relay  *)
(* call to the HTTP request made                                           *)

\* A JavaScript value passed on to a request method: a string, or the
\* args object {appk} as a whole.
JsString(s) == [kind |-> "string", text |-> s]
JsObject(appk) == [kind |-> "object", text |-> appk]

\* path + value: a string is appended as it is, an object as the text
\* String(object) gives.
Appended(v) ==
    IF v.kind = "string" THEN [literal |-> "", text |-> v.text]
    ELSE [literal |-> "[object Object]", text |-> NoBase64]

NoHttpRequest ==
    [verb |-> "none", path |-> "", key |-> Appended(JsString(NoBase64)),
     lastUpdated |-> 0, error |-> ""]

HttpRequest(verb, path, v, lastUpdated) ==
    [verb |-> verb, path |-> path, key |-> Appended(v),
     lastUpdated |-> lastUpdated, error |-> ""]

HttpThrows(e) == [NoHttpRequest EXCEPT !.error = e]

\* _getJobState: the args of its command_get call.
JobStateArgs(appPublicKey) == toUrlSafe(appPublicKey)

\* getSession / waitSession / createSession / createCommand, the same in
\* both definitions of the class as far as the request goes.
SessionRequest(method, a) ==
    IF method = "session_new"
    THEN HttpRequest("POST", "/connect/init", JsString(NoBase64), 0)
    ELSE IF method = "command_new"
    THEN HttpRequest("POST", "/connect/command", JsString(NoBase64), 0)
    ELSE IF a.id = NoBase64 THEN HttpThrows("Invalid session id")
    ELSE IF method = "session_get"
    THEN HttpRequest("GET", "/connect/", JsString(a.id), 0)
    ELSE HttpRequest("GET", "/connect/<id>/wait?lastUpdated=",
                     JsString(a.id), a.lastUpdated)

\* call(method, args) with getCommand(appk: string): call hands the args
\* object to getCommand, which appends its parameter to the path.
TransportCall(method, a) ==
    IF method \notin Methods THEN HttpThrows("Unsupported method")
    ELSE IF method = "command_get"
    THEN HttpRequest("GET", "/connect/command/", JsObject(a.appk), 0)
    ELSE SessionRequest(method, a)

\* call(method, args) with getCommand(args: { appk: string }): getCommand
\* appends args.appk to the path.
TransportCallArgs(method, a) ==
    IF method \notin Methods THEN HttpThrows("Unsupported method")
    ELSE IF method = "command_get"
    THEN HttpRequest("GET", "/connect/command/", JsString(a.appk), 0)
    ELSE SessionRequest(method, a)

InitTransport ==
    /\ vin \in [method : Methods \cup {"other"},
                id : SessionIds \cup {NoBase64},
                lastUpdated : LastUpdates,
                appPublicKey : AppKeyStrings]
    /\ vout = [definition |-> "none", request |-> NoHttpRequest]
    /\ vbase = NoArgs
    /\ NoCall

TransportArgs ==
    [id |-> vin.id, lastUpdated |-> vin.lastUpdated,
     appk |-> JobStateArgs(vin.appPublicKey)]

\* The call under the first definition of the class.
CallTransport ==
    /\ vout.definition = "none"
    /\ vout' = [definition |-> "string",
                request |-> TransportCall(vin.method, TransportArgs)]
    /\ UNCHANGED <<vin, vbase, callVars>>

\* The call under the second definition of the class.
CallTransportArgs ==
    /\ vout.definition = "none"
    /\ vout' = [definition |-> "args",
                request |-> TransportCallArgs(vin.method, TransportArgs)]
    /\ UNCHANGED <<vin, vbase, callVars>>

NextTransport == CallTransport \/ CallTransportArgs

SpecTransport == InitTransport /\ [][NextTransport]_vars

\* C39: a command_get call made through TonhubHttpTransport.call with the
\* args {appk} of _getJobState asks for /connect/command/ followed by
\* exactly that appk, the url-safe form of the app public key.
C39_CommandGetKeyedByAppk ==
    (vout.definition # "none" /\ vin.method = "command_get") =>
        /\ vout.request.verb = "GET"
        /\ vout.request.path = "/connect/command/"
        /\ vout.request.key =
              [literal |-> "", text |-> toUrlSafe(vin.appPublicKey)]

=============================================================================
